---- MODULE Spec2Model ----
(***************************************************************************)
(* Model of the tetrisroom Manager (matchmaking, room replication, control *)
(* mode gating) running on several nodes that share one MemoryPubSub bus.  *)
(*                                                                         *)
(* Strings that the code compares with < (player ids) are sequences of     *)
(* letter codes, compared lexicographically as Go compares strings.  The   *)
(* empty string is << >>.  Room ids "room_<n>" are <<"room_", n>>.         *)
(* Timestamps (UpdatedAt, CreatedAt, At) are left out: no operation of the *)
(* manager reads them.                                                     *)
(***************************************************************************)
EXTENDS Integers, Sequences, FiniteSets, TLC

\* ------------------------------------------------------------------ bounds

\* SetReady calls that pass their checks, in the behaviours of Spec.
MaxReady == 2
\* SetReady calls that pass their checks, in the behaviours of SpecTrio.
TrioReady == 3
\* Calls that pass their checks in the behaviours of SpecAPI.
ApiReady == 2
ApiUpsert == 1
\* SetReady calls that pass their checks in the behaviours of SpecLive.
LiveReady == 2
\* Calls that pass their checks in the behaviours of SpecSync.
SyncReady == 2
SyncInput == 2
\* Calls that pass their checks in the behaviours of SpecControl.
CtlReady == 2
CtlToggle == 1
\* Calls that pass their checks in the behaviours of SpecGate.
GateReady == 2
GateToggle == 1
GateInput == 1
\* SpecThird: SetReady calls of a matched pair and a third player
ThirdReady == 3
\* SpecOrder: SetReady calls of two players with fixed pings
OrderReady == 2
\* SpecReady: successful SetReady and UpsertPlayer calls
ReadyCalls == 2
ReadyUpsert == 1
\* SpecSwitch: successful SetReady and ToggleControl calls
SwitchReady == 2
SwitchToggle == 2
\* SpecStream: successful SetReady and SubmitInput calls, and SubscribeRoom calls
StreamReady == 2
StreamInput == 1
StreamSubs == 2
\* SpecFallible: successful SetReady and SubmitInput calls, and SubscribeRoom calls
FallibleReady == 2
FallibleInput == 1
FallibleSubs == 1
\* SpecFlood: successful SetReady and ToggleControl calls
FloodReady == 2
FloodToggle == 66
\* SpecFifo: successful SetReady calls
FifoReady == 8
\* SpecLocks: SetReady and SubmitInput calls
LocksReady == 66
LocksInput == 1

\* ------------------------------------------------------- program constants

\* make(chan Message, 64)
BufCap == 64

ControlHuman == "human"
ControlAgent == "agent"
SourceHuman == "human"
SourceAgent == "agent"

ErrNone == "ok"
ErrPlayerExists == "player already exists"
ErrLocalSeatOccupied == "local seat already occupied by another player"
ErrPlayerNotFound == "player not found"
ErrRoomNotFound == "room not found"
\* A non-nil error of a network.PubSub whose Publish can fail
ErrPublish == "publish failed"
ErrAlreadyInRoom == "player already in room"
ErrInvalidControlMode == "invalid control mode"
ErrControlModeMismatch == "input source does not match control mode"
ErrPlayerNotInRoom == "player not in room"
ErrPlayerNotRoomMember == "player is not room member"
ErrPingRequiredForReady == "ping_ms required and must be >= 0"

\* --------------------------------------------------------------- inputs

\* The managers that share the bus, in the order NewManager constructs them.
NodeOrder == <<"A", "B", "C">>
Nodes == {NodeOrder[i] : i \in 1..Len(NodeOrder)}

EmptyStr == << >>
\* Player ids are "a" < "ab" < "b" < "c" (letter codes): one id per node, the ids of
\* the users of nodes A and B, and those of node A's user.
OneEach == {<<1>>, <<1, 2>>, <<2>>}
Duo == {<<1>>, <<1, 2>>, <<3>>}
Solo == {<<1>>, <<3>>}
\* "a" on node A and "ab" on node B.
Alice == <<1>>
Bob == <<1, 2>>
Carol == <<2>>
\* player_id is globally unique: each id is the id of one node's user.  The user of
\* node A has two ids to choose from.
HomeOf(id) == IF id \in {<<1>>, <<3>>} THEN "A" ELSE IF id = <<1, 2>> THEN "B" ELSE "C"
\* app_id / version arguments; EmptyStr is the "leave unchanged" argument of Upsert.
AppIds == {<<"tetris">>}
DefaultVersion == <<"0.1.0">>
OtherVersion == <<"0.2.0">>
OtherApp == <<"chess">>
Pings == {0, 1}
\* SpecEcho: SetReady and UpsertPlayer calls.
EchoReady == 2
EchoUpsert == 1
\* SpecLoops: SetReady calls, and Publish calls of other clients.
LoopsReady == 2
LoopsPublish == 2
AgentIds == {EmptyStr, <<"agent-openclaw-1">>}
Modes == {ControlHuman, ControlAgent, "bot"}
Sources == {SourceHuman, SourceAgent, "bot"}
Actions == {"move_left", "state_sync"}

\* ------------------------------------------------------------- helpers

\* Go's string comparison a < b: lexicographic, a proper prefix is smaller.
RECURSIVE StrLess(_, _)
StrLess(a, b) ==
    IF Len(b) = 0 THEN FALSE
    ELSE IF Len(a) = 0 THEN TRUE
    ELSE IF Head(a) = Head(b) THEN StrLess(Tail(a), Tail(b))
    ELSE Head(a) < Head(b)

\* m[k] = v on a Go map.
MapPut(f, k, v) == [x \in DOMAIN f \cup {k} |-> IF x = k THEN v ELSE f[x]]
\* delete(m, k) on a Go map.
MapDel(f, k) == [x \in DOMAIN f \ {k} |-> f[x]]
EmptyMap == [x \in {} |-> TRUE]

\* A faulty room id that leaves the number out.
RoomNameFixed(n) == <<"room_", 0>>

\* fmt.Sprintf("room_%d", n)
RoomName(n) == <<"room_", n>>
\* topicForRoom
topicForRoom(roomID) == <<"tetris.room.">> \o roomID
TopicPlayer == <<"tetris.player">>
TopicRoom == <<"tetris.room">>

\* contains(items, id)
contains(items, id) == \E i \in 1..Len(items) : items[i] = id

\* A sync.RWMutex: the goroutine holding it for writing, those holding it for
\* reading, and those that called Lock and wait for it.
None == "none"
Unlocked == [w |-> None, r |-> {}, q |-> {}]

\* The goroutines of the lock-level view: on node A a caller of SetReady, the
\* consumePlayerEvents loop, a caller of SubmitInput and a handleRoomStream.
Goroutines == {"api", "loop", "input", "stream"}

\* ------------------------------------------------- AssemblerRegistry

\* address(0), the deployer (the owner), and two other accounts
ZeroAddress == "0x0"
Deployer == "0xD"
Accounts == {Deployer, "0xA", "0xB"}

\* enum RequestStatus
Pending == "Pending"
Approved == "Approved"
Rejected == "Rejected"
Cancelled == "Cancelled"

\* uint256 public constant MAX_NOTE_LENGTH, and the note lengths callers use
MAX_NOTE_LENGTH == 256
NoteLengths == {MAX_NOTE_LENGTH, MAX_NOTE_LENGTH + 1}
\* The number of requests the callers submit.
RegistryRequests == 3

\* _addContact on the storage c; the caller checks that it does not revert
CanAddContact(c, who) == who # ZeroAddress /\ ~c.isContact[who]
AddContactInternal(c, who) ==
    [c EXCEPT !.isContact[who] = TRUE,
              !.contacts = Append(@, who),
              !.contactPosPlusOne[who] = Len(c.contacts) + 1]

\* _removeContact on the storage c (positions are kept plus one, as in the contract)
CanRemoveContact(c, who) == who # ZeroAddress /\ c.contactPosPlusOne[who] # 0
RemoveContactInternal(c, who) ==
    LET idx == c.contactPosPlusOne[who]
        last == Len(c.contacts)
        moved == c.contacts[last]
        swapped == IF idx # last
                   THEN [c EXCEPT !.contacts[idx] = moved, !.contactPosPlusOne[moved] = idx]
                   ELSE c
    IN  [swapped EXCEPT !.contacts = SubSeq(@, 1, last - 1),
                        !.contactPosPlusOne[who] = 0,
                        !.isContact[who] = FALSE,
                        !.pendingRequestIdOf[who] = 0]

\* The storage after the constructor ran for the deployer.
Deployed ==
    AddContactInternal(
        [owner |-> Deployer,
         contacts |-> << >>,
         isContact |-> [a \in Accounts |-> FALSE],
         contactPosPlusOne |-> [a \in Accounts |-> 0],
         nextRequestId |-> 1,
         requests |-> << >>,
         pendingRequestIdOf |-> [a \in Accounts |-> 0],
         reviewedBy |-> {}],
        Deployer)

\* ---------------------------------------------------------------- state

VARIABLES
    players,   \* Manager.players of each node: id -> Player
    remote,    \* Manager.remote of each node: id -> Player (remote view)
    rooms,     \* Manager.rooms of each node: room id -> Room
    states,    \* Manager.states of each node: room id -> player id -> PlayerState
    seq,       \* Manager.seq of each node
    subs,      \* MemoryPubSub.subs: topic -> subscription id -> buffered channel
    inflight,  \* per node, the SubmitInput call between its unlock and its return
    ret,       \* the operation that acted last, what it returned and what it published
    observe,   \* the <<operation, node>> pairs whose return ret records (fixed)
    created,   \* history: the rooms the Matcher created, with the candidates it saw
    lastSync,  \* history: per player, the payload of its last returned state_sync
    budget,    \* per operation, the number of calls the callers have yet to make
    closed,    \* MemoryPubSub: <<topic, subscription id>> -> close() calls on its channel
    mu,        \* Manager.mu of each node: the writer, the readers, the callers of Lock
    busMu,     \* MemoryPubSub.mu: the same
    pc,        \* per goroutine of the lock-level view, the place it is at
    registry   \* the storage of the deployed AssemblerRegistry contract

\* The variables of the lock-level view.
locks == <<mu, busMu, pc>>

\* The variables no Manager operation writes.
rest == <<closed, locks, registry>>

vars == <<players, remote, rooms, states, seq, subs, inflight, ret, observe, created,
          lastSync, budget, rest>>

\* type Player struct
NewPlayer(id, appID, version) ==
    [ID |-> id, AppID |-> appID, Version |-> version, PingMS |-> 0, Ready |-> FALSE,
     RoomID |-> EmptyStr, ControlMode |-> ControlHuman, AgentID |-> EmptyStr]

\* type Room struct; NilRoom stands for a nil *Room
NilRoom ==
    [ID |-> EmptyStr, AppID |-> EmptyStr, Version |-> EmptyStr, HostID |-> EmptyStr,
     PlayerIDs |-> << >>]

\* type Event struct; a nil pointer field is the empty sequence, a set one <<v>>
Event(type, roomID, player, room, input, meta) ==
    [Type |-> type, RoomID |-> roomID, Player |-> player, Room |-> room,
     Input |-> input, Meta |-> meta]

\* The subscription ids startSync obtains: NewManager subscribes tetris.player and
\* then tetris.room, and MemoryPubSub.Subscribe hands out nextID, nextID+1, ...
NodeIndex(m) == CHOOSE i \in 1..Len(NodeOrder) : NodeOrder[i] = m
playerCh(m) == 2 * (NodeIndex(m) - 1)
roomCh(m) == 2 * (NodeIndex(m) - 1) + 1

\* A faulty Publish that puts the message in front of the buffered ones.
PublishInFront(s, topic, payload) ==
    [t \in DOMAIN s |->
        IF t = topic
        THEN [id \in DOMAIN s[t] |->
                IF Len(s[t][id]) < BufCap THEN <<payload>> \o s[t][id] ELSE s[t][id]]
        ELSE s[t]]

\* A faulty Publish that sends whatever the buffer holds.
PublishUnbounded(s, topic, payload) ==
    [t \in DOMAIN s |->
        IF t = topic THEN [id \in DOMAIN s[t] |-> Append(s[t][id], payload)] ELSE s[t]]

\* A faulty Publish that stops after the first subscription of the topic.
PublishFirstOnly(s, topic, payload) ==
    [t \in DOMAIN s |->
        IF t = topic
        THEN [id \in DOMAIN s[t] |->
                IF Len(s[t][id]) < BufCap /\ \A other \in DOMAIN s[t] : id <= other
                THEN Append(s[t][id], payload)
                ELSE s[t][id]]
        ELSE s[t]]

\* MemoryPubSub.Publish: non-blocking send to every subscription of the topic,
\* dropped when the buffer is full.
Publish(s, topic, payload) ==
    [t \in DOMAIN s |->
        IF t = topic
        THEN [id \in DOMAIN s[t] |->
                IF Len(s[t][id]) < BufCap THEN Append(s[t][id], payload) ELSE s[t][id]]
        ELSE s[t]]

\* What an operation reports: its name, node, player id, other arguments, the error
\* (ErrNone for nil), the room it returned or installed, and the topics and event
\* types of its Publish calls in order.
Ret(op, m, id, arg, err, room, pubs) ==
    [op |-> op, node |-> m, id |-> id, arg |-> arg, err |-> err, room |-> room,
     pubs |-> pubs]
\* ret after an operation that is not in observe, and after NewManager.
Idle == Ret("idle", "A", EmptyStr, << >>, ErrNone, EmptyStr, << >>)
\* An operation returns r.
Report(r) ==
    /\ ret' = IF <<r.op, r.node>> \in observe THEN r ELSE Idle
    /\ observe' = observe

NoInput == << >>

\* The calls the callers of a behaviour make.
Budget(ready, upsert, toggle, input) ==
    [op \in {"SetReady", "UpsertPlayer", "ToggleControl", "SubmitInput"} |->
       CASE op = "SetReady" -> ready
         [] op = "UpsertPlayer" -> upsert
         [] op = "ToggleControl" -> toggle
         [] op = "SubmitInput" -> input]

\* NewManager on every node of N over one NewMemoryPubSub
Managers(N) ==
    /\ players = [m \in Nodes |-> EmptyMap]
    /\ remote = [m \in Nodes |-> EmptyMap]
    /\ rooms = [m \in Nodes |-> EmptyMap]
    /\ states = [m \in Nodes |-> EmptyMap]
    /\ seq = [m \in Nodes |-> 0]
    /\ subs = [t \in {TopicPlayer, TopicRoom} |->
                 IF t = TopicPlayer
                 THEN [id \in {playerCh(m) : m \in N} |-> << >>]
                 ELSE [id \in {roomCh(m) : m \in N} |-> << >>]]
    /\ inflight = [m \in Nodes |-> NoInput]
    /\ created = {}
    /\ lastSync = EmptyMap
    /\ closed = EmptyMap
    /\ mu = [m \in Nodes |-> Unlocked]
    /\ busMu = Unlocked
    /\ pc = [t \in Goroutines |-> "idle"]
    /\ registry = Deployed

Init == Managers(Nodes) /\ ret = Idle /\ observe = {} /\ budget = Budget(MaxReady, 0, 0, 0)

\* ------------------------------------------------------------- Matcher

\* A faulty filter that looks at neither the ready flag nor the room_id.
IsCandidateAnyState(p, appID, version) == p.AppID = appID /\ p.Version = version

\* tryMatchLocked's candidate filter
IsCandidate(p, appID, version) ==
    p.Ready /\ p.RoomID = EmptyStr /\ p.AppID = appID /\ p.Version = version

\* candidatesByID: local players first, then remote players whose id is not yet there
Candidates(pl, rm, appID, version) ==
    LET loc == {id \in DOMAIN pl : IsCandidate(pl[id], appID, version)}
        rem == {id \in DOMAIN rm : IsCandidate(rm[id], appID, version) /\ id \notin loc}
    IN  {[p |-> pl[id], local |-> TRUE] : id \in loc}
          \cup {[p |-> rm[id], local |-> FALSE] : id \in rem}

\* A faulty less function that ignores the ping.
CandLessByID(ci, cj) == StrLess(ci.p.ID, cj.p.ID)

\* the less function given to sort.Slice
CandLess(ci, cj) ==
    IF ci.p.PingMS = cj.p.PingMS
    THEN StrLess(ci.p.ID, cj.p.ID)
    ELSE ci.p.PingMS < cj.p.PingMS

\* sort.Slice(candidates, less): the ids are distinct map keys, so less is a strict
\* total order and the result does not depend on map iteration order.
RECURSIVE SortCandidates(_)
SortCandidates(S) ==
    IF S = {} THEN << >>
    ELSE LET first == CHOOSE c \in S : \A d \in S \ {c} : CandLess(c, d)
         IN  <<first>> \o SortCandidates(S \ {first})

\* A faulty owner rule without the tiebreak: the first member owns the room.
OwnerFirst(members) == members[1].p.ID

\* owner := members[0].p.ID; if members[1].p.ID < owner { owner = members[1].p.ID }
Owner(members) ==
    IF StrLess(members[2].p.ID, members[1].p.ID)
    THEN members[2].p.ID
    ELSE members[1].p.ID

\* A faulty room that lists its host in both seats.
BuildRoomHostTwice(roomID, appID, version, members) ==
    [ID |-> roomID, AppID |-> appID, Version |-> version, HostID |-> members[1].p.ID,
     PlayerIDs |-> <<members[1].p.ID, members[1].p.ID>>]

\* The room tryMatchLocked builds from the two selected members.
BuildRoom(roomID, appID, version, members) ==
    [ID |-> roomID, AppID |-> appID, Version |-> version, HostID |-> members[1].p.ID,
     PlayerIDs |-> <<members[1].p.ID, members[2].p.ID>>]

\* A faulty installation that leaves the ready flag set.
SeatStillReady(p, roomID) ==
    [p EXCEPT !.RoomID = roomID, !.ControlMode = ControlHuman, !.AgentID = EmptyStr]

\* A faulty installation that takes a seated player out of its room.
SeatOrVacate(p, roomID) ==
    [p EXCEPT !.RoomID = IF @ = EmptyStr THEN roomID ELSE EmptyStr, !.Ready = FALSE,
              !.ControlMode = ControlHuman, !.AgentID = EmptyStr]

\* What a room installation does to a local player.
Seat(p, roomID) ==
    [p EXCEPT !.RoomID = roomID, !.Ready = FALSE, !.ControlMode = ControlHuman,
              !.AgentID = EmptyStr]

\* tryMatchLocked(appID, version) on the maps pl, rm, rs and counter sq of one manager.
\* The result says whether a room was created, the room, the new maps and counter,
\* and the two members as the Matcher saw them.
tryMatchLocked(pl, rm, rs, sq, appID, version) ==
    LET cands == Candidates(pl, rm, appID, version)
        none == [matched |-> FALSE, room |-> NilRoom, players |-> pl, remote |-> rm,
                 rooms |-> rs, seq |-> sq, members |-> << >>]
    IN  IF Cardinality(cands) < 2 THEN none
        ELSE
          LET members == SubSeq(SortCandidates(cands), 1, 2)
              roomID == RoomName(sq + 1)
              room == BuildRoom(roomID, appID, version, members)
              locals == {members[i].p.ID : i \in {j \in 1..2 : members[j].local}}
              ids == {members[i].p.ID : i \in 1..2}
          IN  IF Owner(members) \notin DOMAIN pl THEN none
              ELSE [matched |-> TRUE,
                    room |-> room,
                    players |-> [id \in DOMAIN pl |->
                                   IF id \in locals THEN Seat(pl[id], roomID) ELSE pl[id]],
                    remote |-> [id \in DOMAIN rm \ ids |-> rm[id]],
                    rooms |-> MapPut(rs, roomID, room),
                    seq |-> sq + 1,
                    members |-> members]

\* ------------------------------------------------------------ event codec

\* json.Marshal of a Player: a JSON object keyed by the struct tags; room_id and
\* agent_id carry omitempty and are left out when empty.
MarshalPlayer(p) ==
    LET keys == {"id", "app_id", "version", "ping_ms", "ready", "control_mode"}
                  \cup (IF p.RoomID = EmptyStr THEN {} ELSE {"room_id"})
                  \cup (IF p.AgentID = EmptyStr THEN {} ELSE {"agent_id"})
    IN  [k \in keys |->
           CASE k = "id" -> p.ID
             [] k = "app_id" -> p.AppID
             [] k = "version" -> p.Version
             [] k = "ping_ms" -> p.PingMS
             [] k = "ready" -> p.Ready
             [] k = "room_id" -> p.RoomID
             [] k = "control_mode" -> p.ControlMode
             [] k = "agent_id" -> p.AgentID]

\* A faulty decoder that drops ping_ms.
UnmarshalPlayerNoPing(w) ==
    [ID |-> w["id"], AppID |-> w["app_id"], Version |-> w["version"],
     PingMS |-> 0, Ready |-> w["ready"],
     RoomID |-> IF "room_id" \in DOMAIN w THEN w["room_id"] ELSE EmptyStr,
     ControlMode |-> w["control_mode"],
     AgentID |-> IF "agent_id" \in DOMAIN w THEN w["agent_id"] ELSE EmptyStr]

\* json.Unmarshal into a Player: a missing key leaves the zero value.
UnmarshalPlayer(w) ==
    [ID |-> w["id"], AppID |-> w["app_id"], Version |-> w["version"],
     PingMS |-> w["ping_ms"], Ready |-> w["ready"],
     RoomID |-> IF "room_id" \in DOMAIN w THEN w["room_id"] ELSE EmptyStr,
     ControlMode |-> w["control_mode"],
     AgentID |-> IF "agent_id" \in DOMAIN w THEN w["agent_id"] ELSE EmptyStr]

\* json.Marshal of a Room: no field carries omitempty.
MarshalRoom(r) ==
    [k \in {"id", "app_id", "version", "host_id", "player_ids"} |->
       CASE k = "id" -> r.ID
         [] k = "app_id" -> r.AppID
         [] k = "version" -> r.Version
         [] k = "host_id" -> r.HostID
         [] k = "player_ids" -> r.PlayerIDs]

\* A faulty decoder that drops host_id.
UnmarshalRoomNoHost(w) ==
    [ID |-> w["id"], AppID |-> w["app_id"], Version |-> w["version"],
     HostID |-> EmptyStr, PlayerIDs |-> w["player_ids"]]

\* json.Unmarshal into a Room
UnmarshalRoom(w) ==
    [ID |-> w["id"], AppID |-> w["app_id"], Version |-> w["version"],
     HostID |-> w["host_id"], PlayerIDs |-> w["player_ids"]]

\* A faulty publisher that sends nothing.
publishPlayerLockedSilent(s, eventType, p) == s

\* publishPlayerLocked
publishPlayerLocked(s, eventType, p) ==
    Publish(s, TopicPlayer, Event(eventType, EmptyStr, <<MarshalPlayer(p)>>, << >>, << >>, << >>))

\* publishRoomLocked: the per-room topic first, then the global topic
publishRoomLocked(s, eventType, r, meta) ==
    LET evt == Event(eventType, r.ID, << >>, <<MarshalRoom(r)>>, << >>, meta)
    IN  Publish(Publish(s, topicForRoom(r.ID), evt), TopicRoom, evt)

PubsPlayer(eventType) == << <<TopicPlayer, eventType>> >>
PubsRoom(eventType, roomID) ==
    << <<topicForRoom(roomID), eventType>>, <<TopicRoom, eventType>> >>

\* The history record of a room creation: the creating node, the room, the ping and
\* the room_id the Matcher saw for each member, and the members that were local.
Creation(m, res) ==
    [by |-> m, room |-> res.room,
     ping |-> [id \in {res.members[i].p.ID : i \in 1..2} |->
                 res.members[CHOOSE i \in 1..2 : res.members[i].p.ID = id].p.PingMS],
     assigned |-> [id \in {res.members[i].p.ID : i \in 1..2} |->
                     res.members[CHOOSE i \in 1..2 : res.members[i].p.ID = id].p.RoomID],
     local |-> {res.members[i].p.ID : i \in {j \in 1..2 : res.members[j].local}}]

\* The meta map of a room_assigned event.
AssignedMeta(res) == [reason |-> "all_ready", host_ping_ms |-> res.members[1].p.PingMS]

\* Values of Go type any in an InputEvent payload: [t |-> dynamic type, v |-> value].
\* float64 values are whole numbers here.
GoInt(n) == [t |-> "int", v |-> n]
GoFloat(n) == [t |-> "float64", v |-> n]
GoString(x) == [t |-> "string", v |-> x]
GoBool(b) == [t |-> "bool", v |-> b]
GoStrings(rows) == [t |-> "[]string", v |-> rows]
GoAnys(items) == [t |-> "[]any", v |-> items]

\* json.Marshal of an any: numbers, strings, booleans and arrays of them.
RECURSIVE MarshalAny(_)
MarshalAny(x) ==
    CASE x.t \in {"int", "float64"} -> [j |-> "number", v |-> x.v]
      [] x.t = "string" -> [j |-> "string", v |-> x.v]
      [] x.t = "bool" -> [j |-> "bool", v |-> x.v]
      [] x.t = "[]string" ->
           [j |-> "array", v |-> [i \in 1..Len(x.v) |-> [j |-> "string", v |-> x.v[i]]]]
      [] x.t = "[]any" -> [j |-> "array", v |-> [i \in 1..Len(x.v) |-> MarshalAny(x.v[i])]]

\* json.Unmarshal into an any: a number becomes float64, an array []any.
RECURSIVE UnmarshalAny(_)
UnmarshalAny(w) ==
    CASE w.j = "number" -> GoFloat(w.v)
      [] w.j = "string" -> GoString(w.v)
      [] w.j = "bool" -> GoBool(w.v)
      [] w.j = "array" -> GoAnys([i \in 1..Len(w.v) |-> UnmarshalAny(w.v[i])])

\* type InputEvent struct.  Payload is a map from keys to any; a nil map is the
\* empty map (the code reads a nil map like an empty one, and omitempty drops both).
InputEvent(playerID, source, action, payload) ==
    [PlayerID |-> playerID, Source |-> source, Action |-> action, Payload |-> payload]

\* json.Marshal of an InputEvent
MarshalInput(in) ==
    [player_id |-> in.PlayerID, source |-> in.Source, action |-> in.Action,
     payload |-> [k \in DOMAIN in.Payload |-> MarshalAny(in.Payload[k])]]

\* json.Unmarshal into an InputEvent
UnmarshalInput(w) ==
    [PlayerID |-> w.player_id, Source |-> w.source, Action |-> w.action,
     Payload |-> [k \in DOMAIN w.payload |-> UnmarshalAny(w.payload[k])]]

\* ------------------------------------------------------------ state store

\* A faulty conversion that knows []string only.
toStringSliceTyped(x) == IF x.t = "[]string" THEN <<TRUE, x.v>> ELSE <<FALSE, << >>>>

\* toStringSlice: <<ok, rows>>
toStringSlice(x) ==
    CASE x.t = "[]string" -> <<TRUE, x.v>>
      [] x.t = "[]any" ->
           IF \A i \in 1..Len(x.v) : x.v[i].t = "string"
           THEN <<TRUE, [i \in 1..Len(x.v) |-> x.v[i].v]>>
           ELSE <<FALSE, << >>>>
      [] OTHER -> <<FALSE, << >>>>

\* toInt of payload[k]; a missing key reads as nil, which is no number: 0
toInt(payload, k) ==
    IF k \in DOMAIN payload /\ payload[k].t \in {"int", "float64"} THEN payload[k].v ELSE 0

\* payload["game_over"].(bool)
toBool(payload, k) ==
    IF k \in DOMAIN payload /\ payload[k].t = "bool" THEN payload[k].v ELSE FALSE

\* type PlayerState struct, as upsertRoomState builds it
PlayerState(in, board) ==
    [PlayerID |-> in.PlayerID, Source |-> in.Source, Board |-> board,
     Score |-> toInt(in.Payload, "score"), Lines |-> toInt(in.Payload, "lines"),
     Level |-> toInt(in.Payload, "level"), GameOver |-> toBool(in.Payload, "game_over")]

\* A faulty upsert that stores a snapshot for a room the manager does not know.
upsertRoomStateAnyRoom(rs, st, roomID, in) ==
    IF "board" \notin DOMAIN in.Payload THEN st
    ELSE LET conv == toStringSlice(in.Payload["board"])
             bucket == IF roomID \in DOMAIN st THEN st[roomID] ELSE EmptyMap
         IN  IF ~conv[1] THEN st
             ELSE MapPut(st, roomID, MapPut(bucket, in.PlayerID, PlayerState(in, conv[2])))

\* upsertRoomState on the room table rs and state store st of one manager
upsertRoomState(rs, st, roomID, in) ==
    IF roomID \notin DOMAIN rs THEN st
    ELSE IF "board" \notin DOMAIN in.Payload THEN st
    ELSE LET conv == toStringSlice(in.Payload["board"])
             bucket == IF roomID \in DOMAIN st THEN st[roomID] ELSE EmptyMap
         IN  IF ~conv[1] THEN st
             ELSE MapPut(st, roomID, MapPut(bucket, in.PlayerID, PlayerState(in, conv[2])))

\* A faulty lookup that takes a room without a state bucket for an unknown room.
GetRoomStatesNeedsBucket(m, roomID) ==
    IF roomID \notin DOMAIN rooms[m] \/ roomID \notin DOMAIN states[m]
    THEN <<ErrRoomNotFound, EmptyMap>>
    ELSE <<ErrNone, states[m][roomID]>>

\* GetRoomStates: <<err, states>>
GetRoomStates(m, roomID) ==
    IF roomID \notin DOMAIN rooms[m] THEN <<ErrRoomNotFound, EmptyMap>>
    ELSE IF roomID \notin DOMAIN states[m] THEN <<ErrNone, EmptyMap>>
    ELSE <<ErrNone, states[m][roomID]>>

\* ---------------------------------------------------------- registry

\* player_id is globally unique: a node's seat is only ever taken by an id of its own
\* user.
GloballyUnique(m, id) == HomeOf(id) = m

\* Faulty checks that look at the seat before the id.
RegisterPlayerErrSeatFirst(m, id) ==
    IF Cardinality(DOMAIN players[m]) > 0 THEN ErrLocalSeatOccupied
    ELSE IF id \in DOMAIN players[m] THEN ErrPlayerExists
    ELSE ErrNone

\* RegisterPlayer's checks
RegisterPlayerErr(m, id) ==
    IF id \in DOMAIN players[m] THEN ErrPlayerExists
    ELSE IF Cardinality(DOMAIN players[m]) > 0 THEN ErrLocalSeatOccupied
    ELSE ErrNone

\* Manager.RegisterPlayer
RegisterPlayer(m, id, appID, version) ==
    LET err == RegisterPlayerErr(m, id)
    IN  /\ err = ErrNone => GloballyUnique(m, id)
        /\ players' = IF err = ErrNone
                       THEN [players EXCEPT ![m] = MapPut(@, id, NewPlayer(id, appID, version))]
                       ELSE players
        /\ Report(Ret("RegisterPlayer", m, id, <<appID, version>>, err, EmptyStr, << >>))
        /\ UNCHANGED <<rest, remote, rooms, states, seq, subs, inflight, created, lastSync, budget>>

\* A faulty seat check that finds the seat free whenever the id is unknown.
UpsertSeatNeverTaken(m, id) == FALSE

\* UpsertPlayer's seat check: the id is unknown and the seat is taken
UpsertSeatTaken(m, id) == id \notin DOMAIN players[m] /\ Cardinality(DOMAIN players[m]) > 0

\* A faulty room check that lets a version change through.
UpsertInRoomAppOnly(p, appID, version) ==
    p.RoomID # EmptyStr /\ appID # EmptyStr /\ appID # p.AppID

\* UpsertPlayer's room check on the player p it found or created
UpsertInRoom(p, appID, version) ==
    /\ p.RoomID # EmptyStr
    /\ \/ appID # EmptyStr /\ appID # p.AppID
       \/ version # EmptyStr /\ version # p.Version

\* The player UpsertPlayer works on: the one it found, or the one it creates
UpsertTarget(m, id) ==
    IF id \in DOMAIN players[m] THEN players[m][id] ELSE NewPlayer(id, EmptyStr, EmptyStr)

\* UpsertPlayer's checks
UpsertPlayerErr(m, id, appID, version) ==
    IF UpsertSeatTaken(m, id) THEN ErrLocalSeatOccupied
    ELSE IF UpsertInRoom(UpsertTarget(m, id), appID, version) THEN ErrAlreadyInRoom
    ELSE ErrNone

\* Manager.UpsertPlayer
UpsertPlayer(m, id, appID, version) ==
    LET known == id \in DOMAIN players[m]
        seatTaken == UpsertSeatTaken(m, id)
        p == UpsertTarget(m, id)
        err == UpsertPlayerErr(m, id, appID, version)
        q == [p EXCEPT !.AppID = IF appID # EmptyStr THEN appID ELSE @,
                       !.Version = IF version # EmptyStr THEN version ELSE @,
                       !.ControlMode = IF @ = "" THEN ControlHuman ELSE @]
    IN  /\ (~known /\ ~seatTaken) => GloballyUnique(m, id)
        /\ err = ErrNone => budget["UpsertPlayer"] > 0
        /\ budget' = IF err = ErrNone THEN [budget EXCEPT !["UpsertPlayer"] = @ - 1]
                     ELSE budget
        /\ players' = IF err = ErrNone THEN [players EXCEPT ![m] = MapPut(@, id, q)]
                       ELSE IF seatTaken THEN players
                       ELSE [players EXCEPT ![m] = MapPut(@, id, p)]
        /\ Report(Ret("UpsertPlayer", m, id, <<appID, version>>, err, EmptyStr, << >>))
        /\ UNCHANGED <<rest, remote, rooms, states, seq, subs, inflight, created, lastSync>>

\* The effect of a tryMatchLocked result on node m, with the bus s it publishes to.
ApplyMatch(m, res, s) ==
    /\ players' = [players EXCEPT ![m] = res.players]
    /\ remote' = [remote EXCEPT ![m] = res.remote]
    /\ rooms' = [rooms EXCEPT ![m] = res.rooms]
    /\ seq' = [seq EXCEPT ![m] = res.seq]
    /\ subs' = IF res.matched
                THEN publishRoomLocked(s, "room_assigned", res.room, AssignedMeta(res))
                ELSE s
    /\ created' = IF res.matched THEN created \cup {Creation(m, res)} ELSE created

\* Faulty checks that look the player up before they look at the ping.
SetReadyErrLookupFirst(m, playerID, pingMS) ==
    IF playerID \notin DOMAIN players[m] THEN ErrPlayerNotFound
    ELSE IF pingMS < 0 THEN ErrPingRequiredForReady
    ELSE IF players[m][playerID].RoomID # EmptyStr THEN ErrAlreadyInRoom
    ELSE ErrNone

\* SetReady's checks
SetReadyErr(m, playerID, pingMS) ==
    IF pingMS < 0 THEN ErrPingRequiredForReady
    ELSE IF playerID \notin DOMAIN players[m] THEN ErrPlayerNotFound
    ELSE IF players[m][playerID].RoomID # EmptyStr THEN ErrAlreadyInRoom
    ELSE ErrNone

\* Manager.SetReady
SetReady(m, playerID, pingMS) ==
    LET err == SetReadyErr(m, playerID, pingMS)
    IN  IF err # ErrNone
        THEN /\ Report(Ret("SetReady", m, playerID, <<pingMS>>, err, EmptyStr, << >>))
             /\ UNCHANGED <<rest, players, remote, rooms, states, seq, subs, inflight, created,
                            lastSync, budget>>
        ELSE \E p \in {[players[m][playerID] EXCEPT !.Ready = TRUE, !.PingMS = pingMS]} :
             \E s1 \in {publishPlayerLocked(subs, "player_ready", p)} :
             \E res \in {tryMatchLocked(MapPut(players[m], playerID, p), remote[m], rooms[m],
                                         seq[m], p.AppID, p.Version)} :
                 /\ budget["SetReady"] > 0
                 /\ budget' = [budget EXCEPT !["SetReady"] = @ - 1]
                 /\ ApplyMatch(m, res, s1)
                 /\ Report(Ret("SetReady", m, playerID, <<pingMS>>, ErrNone, res.room.ID,
                               PubsPlayer("player_ready")
                                 \o (IF res.matched
                                     THEN PubsRoom("room_assigned", res.room.ID)
                                     ELSE << >>)))
                 /\ UNCHANGED <<rest, states, inflight, lastSync>>

\* ------------------------------------------------------- control mode

\* Faulty checks that look the room up before they look at the target mode.
ToggleControlErrRoomFirst(m, roomID, playerID, toMode) ==
    IF roomID \notin DOMAIN rooms[m] THEN ErrRoomNotFound
    ELSE IF toMode # ControlHuman /\ toMode # ControlAgent THEN ErrInvalidControlMode
    ELSE IF ~contains(rooms[m][roomID].PlayerIDs, playerID) THEN ErrPlayerNotRoomMember
    ELSE IF playerID \notin DOMAIN players[m] THEN ErrPlayerNotFound
    ELSE IF players[m][playerID].RoomID # roomID THEN ErrPlayerNotInRoom
    ELSE ErrNone

\* ToggleControl's checks
ToggleControlErr(m, roomID, playerID, toMode) ==
    IF toMode # ControlHuman /\ toMode # ControlAgent THEN ErrInvalidControlMode
    ELSE IF roomID \notin DOMAIN rooms[m] THEN ErrRoomNotFound
    ELSE IF ~contains(rooms[m][roomID].PlayerIDs, playerID) THEN ErrPlayerNotRoomMember
    ELSE IF playerID \notin DOMAIN players[m] THEN ErrPlayerNotFound
    ELSE IF players[m][playerID].RoomID # roomID THEN ErrPlayerNotInRoom
    ELSE ErrNone

\* A faulty switch that keeps the agent_id on a switch to human.
SwitchedKeepsAgent(p, toMode, agentID) ==
    [p EXCEPT !.ControlMode = toMode,
              !.AgentID = IF toMode = ControlAgent THEN agentID ELSE @]

\* The player ToggleControl leaves behind
Switched(p, toMode, agentID) ==
    [p EXCEPT !.ControlMode = toMode,
              !.AgentID = IF toMode = ControlAgent THEN agentID ELSE EmptyStr]

\* Manager.ToggleControl
ToggleControl(m, roomID, playerID, toMode, agentID) ==
    LET err == ToggleControlErr(m, roomID, playerID, toMode)
    IN  IF err # ErrNone
        THEN /\ Report(Ret("ToggleControl", m, playerID, <<roomID, toMode, agentID>>, err,
                           EmptyStr, << >>))
             /\ UNCHANGED <<rest, players, remote, rooms, states, seq, subs, inflight, created,
                            lastSync, budget>>
        ELSE LET p == players[m][playerID]
                 q == Switched(p, toMode, agentID)
                 meta == [player_id |-> playerID, from_mode |-> p.ControlMode,
                          to_mode |-> toMode, agent_id |-> q.AgentID]
             IN  /\ budget["ToggleControl"] > 0
                 /\ budget' = [budget EXCEPT !["ToggleControl"] = @ - 1]
                 /\ players' = [players EXCEPT ![m][playerID] = q]
                 /\ subs' = publishRoomLocked(subs, "control_switch_applied", rooms[m][roomID],
                                              meta)
                 /\ Report(Ret("ToggleControl", m, playerID, <<roomID, toMode, agentID>>,
                               ErrNone, roomID, PubsRoom("control_switch_applied", roomID)))
                 /\ UNCHANGED <<rest, remote, rooms, states, seq, inflight, created, lastSync>>

\* Faulty checks that gate the human mode only.
SubmitInputErrHumanOnly(m, roomID, in) ==
    IF roomID \notin DOMAIN rooms[m] THEN ErrRoomNotFound
    ELSE IF ~contains(rooms[m][roomID].PlayerIDs, in.PlayerID) THEN ErrPlayerNotRoomMember
    ELSE IF in.PlayerID \notin DOMAIN players[m] THEN ErrPlayerNotFound
    ELSE IF players[m][in.PlayerID].RoomID # roomID THEN ErrPlayerNotInRoom
    ELSE IF players[m][in.PlayerID].ControlMode = ControlHuman /\ in.Source # SourceHuman
    THEN ErrControlModeMismatch
    ELSE ErrNone

\* SubmitInput's checks, made under the read lock
SubmitInputErr(m, roomID, in) ==
    IF roomID \notin DOMAIN rooms[m] THEN ErrRoomNotFound
    ELSE IF ~contains(rooms[m][roomID].PlayerIDs, in.PlayerID) THEN ErrPlayerNotRoomMember
    ELSE IF in.PlayerID \notin DOMAIN players[m] THEN ErrPlayerNotFound
    ELSE IF players[m][in.PlayerID].RoomID # roomID THEN ErrPlayerNotInRoom
    ELSE IF players[m][in.PlayerID].ControlMode = ControlHuman /\ in.Source # SourceHuman
    THEN ErrControlModeMismatch
    ELSE IF players[m][in.PlayerID].ControlMode = ControlAgent /\ in.Source # SourceAgent
    THEN ErrControlModeMismatch
    ELSE ErrNone

\* Manager.SubmitInput up to the release of the read lock: a call that fails returns,
\* one that passes goes on to apply a state_sync and to publish.
SubmitInput(m, roomID, in) ==
    LET err == SubmitInputErr(m, roomID, in)
    IN  /\ inflight[m] = NoInput
        /\ err = ErrNone => budget["SubmitInput"] > 0
        /\ budget' = IF err = ErrNone THEN [budget EXCEPT !["SubmitInput"] = @ - 1] ELSE budget
        /\ inflight' = IF err = ErrNone
                        THEN [inflight EXCEPT ![m] =
                                <<[roomID |-> roomID, in |-> in,
                                   pc |-> IF in.Action = "state_sync" THEN "apply"
                                          ELSE "publish"]>>]
                        ELSE inflight
        /\ Report(Ret("SubmitInput", m, in.PlayerID, <<roomID, in.Source, in.Action>>,
                      IF err = ErrNone THEN "validated" ELSE err, roomID, << >>))
        /\ UNCHANGED <<rest, players, remote, rooms, states, seq, subs, created, lastSync>>

\* A faulty SubmitInput that goes on to publish a state_sync without storing it.
SubmitInputApplySkipped(m) ==
    /\ inflight[m] # NoInput
    /\ inflight[m][1].pc = "apply"
    /\ inflight' = [inflight EXCEPT ![m] = <<[inflight[m][1] EXCEPT !.pc = "publish"]>>]
    /\ Report(Ret("SubmitInputApply", m, inflight[m][1].in.PlayerID, << >>, ErrNone,
                  inflight[m][1].roomID, << >>))
    /\ UNCHANGED <<rest, players, remote, rooms, states, seq, subs, created, lastSync, budget>>

\* SubmitInput: m.upsertRoomState(roomID, in) for a state_sync, under the write lock
SubmitInputApply(m) ==
    /\ inflight[m] # NoInput
    /\ inflight[m][1].pc = "apply"
    /\ states' = [states EXCEPT ![m] =
                    upsertRoomState(rooms[m], @, inflight[m][1].roomID, inflight[m][1].in)]
    /\ inflight' = [inflight EXCEPT ![m] = <<[inflight[m][1] EXCEPT !.pc = "publish"]>>]
    /\ Report(Ret("SubmitInputApply", m, inflight[m][1].in.PlayerID, << >>, ErrNone,
                  inflight[m][1].roomID, << >>))
    /\ UNCHANGED <<rest, players, remote, rooms, seq, subs, created, lastSync, budget>>

\* SubmitInput: the two Publish calls and the return
SubmitInputPublish(m) ==
    /\ inflight[m] # NoInput
    /\ inflight[m][1].pc = "publish"
    /\ \E roomID \in {inflight[m][1].roomID} :
       \E in \in {inflight[m][1].in} :
       \E b \in {Event("room_input", roomID, << >>, << >>, <<MarshalInput(in)>>, << >>)} :
           /\ subs' = Publish(Publish(subs, topicForRoom(roomID), b), TopicRoom, b)
           /\ lastSync' = IF in.Action = "state_sync"
                           THEN MapPut(lastSync, in.PlayerID, in.Payload)
                           ELSE lastSync
           /\ Report(Ret("SubmitInputReturn", m, in.PlayerID, <<roomID, in.Source, in.Action>>,
                         ErrNone, roomID, PubsRoom("room_input", roomID)))
    /\ inflight' = [inflight EXCEPT ![m] = NoInput]
    /\ UNCHANGED <<rest, players, remote, rooms, states, seq, created, budget>>

\* A faulty SubmitInput that goes on to the global topic whatever the first Publish
\* returned.
AfterRoomPublishIgnoresErr(err) == "global"

\* SubmitInput after m.pubsub.Publish(topicForRoom(roomID), b) returned err
AfterRoomPublish(err) == IF err # ErrNone THEN "return" ELSE "global"

\* SubmitInput over a network.PubSub whose Publish returns err, having delivered to
\* the subscribers if err is nil and to nobody otherwise: the Publish on the per-room
\* topic, and the return if it failed
SubmitInputPublishRoom(m, err) ==
    /\ inflight[m] # NoInput
    /\ inflight[m][1].pc = "publish"
    /\ \E roomID \in {inflight[m][1].roomID} :
       \E in \in {inflight[m][1].in} :
       \E b \in {Event("room_input", roomID, << >>, << >>, <<MarshalInput(in)>>, << >>)} :
       \E returns \in {AfterRoomPublish(err) = "return"} :
           /\ subs' = IF err = ErrNone THEN Publish(subs, topicForRoom(roomID), b) ELSE subs
           /\ inflight' = [inflight EXCEPT ![m] =
                             IF returns THEN NoInput
                             ELSE <<[inflight[m][1] EXCEPT !.pc = "global"]>>]
           /\ lastSync' = IF returns /\ in.Action = "state_sync"
                           THEN MapPut(lastSync, in.PlayerID, in.Payload)
                           ELSE lastSync
           /\ Report(Ret(IF returns THEN "SubmitInputReturn" ELSE "SubmitInputPublish", m,
                         in.PlayerID, <<roomID, in.Source, in.Action>>, err, roomID,
                         IF err = ErrNone THEN << <<topicForRoom(roomID), "room_input">> >>
                         ELSE << >>))
    /\ UNCHANGED <<rest, players, remote, rooms, states, seq, created, budget>>

\* The same SubmitInput: return m.pubsub.Publish("tetris.room", b)
SubmitInputPublishGlobal(m, err) ==
    /\ inflight[m] # NoInput
    /\ inflight[m][1].pc = "global"
    /\ \E roomID \in {inflight[m][1].roomID} :
       \E in \in {inflight[m][1].in} :
       \E b \in {Event("room_input", roomID, << >>, << >>, <<MarshalInput(in)>>, << >>)} :
           /\ subs' = IF err = ErrNone THEN Publish(subs, TopicRoom, b) ELSE subs
           /\ lastSync' = IF in.Action = "state_sync"
                           THEN MapPut(lastSync, in.PlayerID, in.Payload)
                           ELSE lastSync
           /\ Report(Ret("SubmitInputReturn", m, in.PlayerID,
                         <<roomID, in.Source, in.Action>>, err, roomID,
                         IF err = ErrNone THEN PubsRoom("room_input", roomID)
                         ELSE << <<topicForRoom(roomID), "room_input">> >>))
    /\ inflight' = [inflight EXCEPT ![m] = NoInput]
    /\ UNCHANGED <<rest, players, remote, rooms, states, seq, created, budget>>

\* ------------------------------------------------------ replication loops

\* The bus after the subscriber read the head of its channel.
Receive(topic, id) == [subs EXCEPT ![topic][id] = Tail(@)]

\* A payload json.Unmarshal rejects, and whether a payload decodes into an Event.
Undecodable == [Raw |-> "{"]
Decodes(payload) == "Type" \in DOMAIN payload

\* A faulty refresh that also overwrites a player who sits in a room.
RefreshLocalAlways(pl, incoming) ==
    IF incoming.ID \in DOMAIN pl
    THEN [pl EXCEPT ![incoming.ID] =
            [@ EXCEPT !.Ready = incoming.Ready, !.PingMS = incoming.PingMS,
                      !.AppID = incoming.AppID, !.Version = incoming.Version]]
    ELSE pl

\* consumePlayerEvents: what a player_ready event does to the local registry pl
RefreshLocal(pl, incoming) ==
    IF incoming.ID \in DOMAIN pl /\ pl[incoming.ID].RoomID = EmptyStr
    THEN [pl EXCEPT ![incoming.ID] =
            [@ EXCEPT !.Ready = incoming.Ready, !.PingMS = incoming.PingMS,
                      !.AppID = incoming.AppID, !.Version = incoming.Version]]
    ELSE pl

\* A faulty refresh that never deletes from the remote view.
RefreshRemoteKeeps(pl, rm, incoming) ==
    IF incoming.ID \in DOMAIN pl THEN rm
    ELSE IF incoming.RoomID = EmptyStr /\ incoming.Ready
    THEN MapPut(rm, incoming.ID, incoming)
    ELSE rm

\* consumePlayerEvents: what a player_ready event does to the remote view rm
RefreshRemote(pl, rm, incoming) ==
    IF incoming.ID \in DOMAIN pl THEN rm
    ELSE IF incoming.RoomID = EmptyStr /\ incoming.Ready
    THEN MapPut(rm, incoming.ID, incoming)
    ELSE MapDel(rm, incoming.ID)

\* One iteration of consumePlayerEvents on node m.
consumePlayerEvents(m) ==
    /\ subs[TopicPlayer][playerCh(m)] # << >>
    /\ \E evt \in {Head(subs[TopicPlayer][playerCh(m)])} :
       \E s0 \in {Receive(TopicPlayer, playerCh(m))} :
           IF ~Decodes(evt) \/ evt.Type # "player_ready" \/ evt.Player = << >>
           THEN /\ subs' = s0
                /\ Report(Ret("consumePlayerEvents", m, EmptyStr, <<"skip">>, ErrNone,
                              EmptyStr, << >>))
                /\ UNCHANGED <<players, remote, rooms, seq, created>>
           ELSE \E incoming \in {UnmarshalPlayer(evt.Player[1])} :
                \E pl \in {RefreshLocal(players[m], incoming)} :
                \E rm \in {RefreshRemote(players[m], remote[m], incoming)} :
                \E res \in {tryMatchLocked(pl, rm, rooms[m], seq[m], incoming.AppID,
                                            incoming.Version)} :
                    /\ ApplyMatch(m, res, s0)
                    /\ Report(Ret("consumePlayerEvents", m, incoming.ID, <<"player_ready">>,
                                  ErrNone, res.room.ID,
                                  IF res.matched THEN PubsRoom("room_assigned", res.room.ID)
                                  ELSE << >>))
    /\ UNCHANGED <<rest, states, inflight, lastSync, budget>>

\* A faulty installation that leaves the local players as they are.
InstallPlayersSkipped(pl, cp) == pl

\* consumeRoomEvents, case "room_assigned": the registry after the room cp is installed
InstallPlayers(pl, cp) ==
    [id \in DOMAIN pl |-> IF contains(cp.PlayerIDs, id) THEN Seat(pl[id], cp.ID) ELSE pl[id]]

\* consumeRoomEvents, case "room_assigned": the remote view after the room is installed
InstallRemote(rm, cp) == [id \in {x \in DOMAIN rm : ~contains(cp.PlayerIDs, x)} |-> rm[id]]

\* One iteration of consumeRoomEvents on node m.
consumeRoomEvents(m) ==
    /\ subs[TopicRoom][roomCh(m)] # << >>
    /\ \E evt \in {Head(subs[TopicRoom][roomCh(m)])} :
           /\ subs' = Receive(TopicRoom, roomCh(m))
           /\ IF Decodes(evt) /\ evt.Type = "room_assigned" /\ evt.Room # << >>
              THEN \E cp \in {UnmarshalRoom(evt.Room[1])} :
                       /\ rooms' = [rooms EXCEPT ![m] = MapPut(@, cp.ID, cp)]
                       /\ players' = [players EXCEPT ![m] = InstallPlayers(@, cp)]
                       /\ remote' = [remote EXCEPT ![m] = InstallRemote(@, cp)]
                       /\ states' = [states EXCEPT ![m] =
                                       IF cp.ID \in DOMAIN @ THEN @
                                       ELSE MapPut(@, cp.ID, EmptyMap)]
                       /\ Report(Ret("consumeRoomEvents", m, EmptyStr, <<"room_assigned">>,
                                     ErrNone, cp.ID, << >>))
              ELSE IF /\ Decodes(evt)
                      /\ evt.Type = "room_input"
                      /\ evt.Input # << >>
                      /\ evt.RoomID # EmptyStr
                      /\ evt.Input[1].action = "state_sync"
              THEN /\ states' = [states EXCEPT ![m] =
                                   upsertRoomState(rooms[m], @, evt.RoomID,
                                                   UnmarshalInput(evt.Input[1]))]
                   /\ Report(Ret("consumeRoomEvents", m, EmptyStr, <<"state_sync">>, ErrNone,
                                 evt.RoomID, << >>))
                   /\ UNCHANGED <<players, remote, rooms>>
              ELSE /\ Report(Ret("consumeRoomEvents", m, EmptyStr, <<"skip">>, ErrNone,
                                 EmptyStr, << >>))
                   /\ UNCHANGED <<players, remote, rooms, states>>
    /\ UNCHANGED <<rest, seq, inflight, created, lastSync, budget>>

\* ------------------------------------------------------------------- bus

\* The subscriptions MemoryPubSub.Subscribe has handed out: those in the fan-out table
\* and those whose channel was closed.
Issued ==
    UNION {{<<t, id>> : id \in DOMAIN subs[t]} : t \in DOMAIN subs} \cup DOMAIN closed

\* The subscriptions startSync obtained.
Started == {TopicPlayer, TopicRoom} \X (0 .. 2 * Len(NodeOrder) - 1)

\* MemoryPubSub.nextID: ids are handed out in increasing order and never reused.
nextID ==
    IF Issued = {} THEN 0
    ELSE 1 + (CHOOSE n \in {x[2] : x \in Issued} : \A x \in Issued : x[2] <= n)

\* MemoryPubSub.Subscribe: the fan-out table with a new empty channel for the topic
Subscribe(s, topic, id) ==
    [t \in DOMAIN s \cup {topic} |->
       IF t = topic
       THEN MapPut(IF topic \in DOMAIN s THEN s[topic] ELSE EmptyMap, id, << >>)
       ELSE s[t]]

\* Manager.SubscribeRoom, as handleRoomStream calls it
SubscribeRoom(m, roomID) ==
    /\ subs' = Subscribe(subs, topicForRoom(roomID), nextID)
    /\ Report(Ret("SubscribeRoom", m, EmptyStr, <<roomID>>, ErrNone, roomID, << >>))
    /\ UNCHANGED <<players, remote, rooms, states, seq, inflight, created, lastSync,
                   budget, closed, locks, registry>>

\* A faulty cancel that closes the channel without looking it up.
CancelClosesAlways(s, topic, id) == TRUE

\* cancel: the subscription is still in the fan-out table
CancelCloses(s, topic, id) == topic \in DOMAIN s /\ id \in DOMAIN s[topic]

\* cancel: the fan-out table without the subscription, and without the topic when
\* that was its last subscription
Unsubscribe(s, topic, id) ==
    IF topic \notin DOMAIN s THEN s
    ELSE IF DOMAIN s[topic] \ {id} = {} THEN MapDel(s, topic)
    ELSE [s EXCEPT ![topic] = MapDel(@, id)]

\* The cancel handle Subscribe returned for subscription id of the topic.
cancel(topic, id) ==
    /\ subs' = Unsubscribe(subs, topic, id)
    /\ closed' = IF CancelCloses(subs, topic, id)
                  THEN MapPut(closed, <<topic, id>>,
                              IF <<topic, id>> \in DOMAIN closed
                              THEN closed[<<topic, id>>] + 1
                              ELSE 1)
                  ELSE closed
    /\ Report(Ret("cancel", "A", EmptyStr, <<topic, id>>, ErrNone, EmptyStr, << >>))
    /\ UNCHANGED <<players, remote, rooms, states, seq, inflight, created, lastSync,
                   budget, locks, registry>>

\* handleRoomStream takes a message from its channel.
StreamReceive(topic, id) ==
    /\ topic \in DOMAIN subs
    /\ id \in DOMAIN subs[topic]
    /\ subs[topic][id] # << >>
    /\ subs' = Receive(topic, id)
    /\ Report(Ret("handleRoomStream", "A", EmptyStr, <<topic, id>>, ErrNone, EmptyStr, << >>))
    /\ UNCHANGED <<players, remote, rooms, states, seq, inflight, created, lastSync,
                   budget, closed, locks, registry>>

\* ------------------------------------------------------------ lock level

\* sync.RWMutex: RLock returns when no writer holds the lock and none waits for it
CanRLock(l) == l.w = None /\ l.q = {}
RLocked(l, t) == [l EXCEPT !.r = @ \cup {t}]
RUnlocked(l, t) == [l EXCEPT !.r = @ \ {t}]
\* Lock announces the writer, and returns when the lock has no holder
Waiting(l, t) == [l EXCEPT !.q = @ \cup {t}]
CanLock(l, t) == t \in l.q /\ l.w = None /\ l.r = {}
Locked(l, t) == [l EXCEPT !.w = t, !.q = @ \ {t}]
WUnlocked(l) == [l EXCEPT !.w = None]
Holds(l, t) == l.w = t \/ t \in l.r

\* A faulty send that waits for room in every buffer of the topic.
SendReadyWhenRoom(s, topic) ==
    topic \in DOMAIN s => \A id \in DOMAIN s[topic] : Len(s[topic][id]) < BufCap

\* MemoryPubSub.Publish: select { case ch <- msg: default: } never waits
SendReady(s, topic) == TRUE

\* The data of the managers, which the lock-level view leaves alone.
data == <<players, remote, rooms, states, seq, inflight, created, lastSync, ret, observe,
          registry>>

\* Goroutine t goes from place a to place b.
Goes(t, a, b) == pc[t] = a /\ pc' = [pc EXCEPT ![t] = b]

\* An event whose content plays no part at the lock level.
Note(type) == Event(type, EmptyStr, << >>, << >>, << >>, << >>)

\* MemoryPubSub.Publish by goroutine t: RLock, then the sends and RUnlock
PublishBegin(t, a, b) ==
    /\ Goes(t, a, b)
    /\ CanRLock(busMu)
    /\ busMu' = RLocked(busMu, t)
    /\ UNCHANGED <<data, subs, budget, closed, mu>>
PublishEnd(t, a, b, topic, type) ==
    /\ Goes(t, a, b)
    /\ SendReady(subs, topic)
    /\ subs' = Publish(subs, topic, Note(type))
    /\ busMu' = RUnlocked(busMu, t)
    /\ UNCHANGED <<data, budget, closed, mu>>

\* m.mu.Lock() of node A by goroutine t returns, and m.mu.Unlock()
LockEnd(t, a, b) ==
    /\ Goes(t, a, b)
    /\ CanLock(mu["A"], t)
    /\ mu' = [mu EXCEPT !["A"] = Locked(@, t)]
    /\ UNCHANGED <<data, subs, budget, closed, busMu>>
Unlock(t, a, b) ==
    /\ Goes(t, a, b)
    /\ mu' = [mu EXCEPT !["A"] = WUnlocked(@)]
    /\ UNCHANGED <<data, subs, budget, closed, busMu>>

\* SetReady without a match: Lock, publishPlayerLocked, deferred Unlock
SetReadyLocks ==
    \/ /\ budget["SetReady"] > 0
       /\ budget' = [budget EXCEPT !["SetReady"] = @ - 1]
       /\ Goes("api", "idle", "lock")
       /\ mu' = [mu EXCEPT !["A"] = Waiting(@, "api")]
       /\ UNCHANGED <<data, subs, closed, busMu>>
    \/ LockEnd("api", "lock", "held")
    \/ PublishBegin("api", "held", "send")
    \/ PublishEnd("api", "send", "sent", TopicPlayer, "player_ready")
    \/ Unlock("api", "sent", "idle")

\* consumePlayerEvents without a match: receive, Lock, Unlock
consumePlayerEventsLocks ==
    \/ /\ subs[TopicPlayer][playerCh("A")] # << >>
       /\ subs' = Receive(TopicPlayer, playerCh("A"))
       /\ Goes("loop", "idle", "lock")
       /\ mu' = [mu EXCEPT !["A"] = Waiting(@, "loop")]
       /\ UNCHANGED <<data, budget, closed, busMu>>
    \/ LockEnd("loop", "lock", "held")
    \/ Unlock("loop", "held", "idle")

\* SubmitInput: the checks under RLock, upsertRoomState under Lock for a state_sync,
\* and the two Publish calls
SubmitInputLocks ==
    \/ /\ budget["SubmitInput"] > 0
       /\ budget' = [budget EXCEPT !["SubmitInput"] = @ - 1]
       /\ pc["stream"] = "idle"
       /\ Goes("input", "idle", "checks")
       /\ CanRLock(mu["A"])
       /\ mu' = [mu EXCEPT !["A"] = RLocked(@, "input")]
       /\ UNCHANGED <<data, subs, closed, busMu>>
    \/ /\ Goes("input", "checks", "publish")
       /\ mu' = [mu EXCEPT !["A"] = RUnlocked(@, "input")]
       /\ UNCHANGED <<data, subs, budget, closed, busMu>>
    \/ /\ Goes("input", "checks", "lock")
       /\ mu' = [mu EXCEPT !["A"] = Waiting(RUnlocked(@, "input"), "input")]
       /\ UNCHANGED <<data, subs, budget, closed, busMu>>
    \/ LockEnd("input", "lock", "held")
    \/ Unlock("input", "held", "publish")
    \/ PublishBegin("input", "publish", "send")
    \/ PublishEnd("input", "send", "publish2", topicForRoom(RoomName(1)), "room_input")
    \/ PublishBegin("input", "publish2", "send2")
    \/ PublishEnd("input", "send2", "idle", TopicRoom, "room_input")

\* handleRoomStream: MemoryPubSub.Subscribe under the bus lock, later the deferred
\* cancel under the bus lock
handleRoomStreamLocks ==
    \/ /\ Goes("stream", "idle", "lock")
       /\ pc["input"] = "idle" /\ budget["SubmitInput"] = LocksInput
       /\ busMu' = Waiting(busMu, "stream")
       /\ UNCHANGED <<data, subs, budget, closed, mu>>
    \/ /\ Goes("stream", "lock", "held")
       /\ CanLock(busMu, "stream")
       /\ busMu' = Locked(busMu, "stream")
       /\ subs' = Subscribe(subs, topicForRoom(RoomName(1)), nextID)
       /\ UNCHANGED <<data, budget, closed, mu>>
    \/ /\ Goes("stream", "held", "open")
       /\ busMu' = WUnlocked(busMu)
       /\ UNCHANGED <<data, subs, budget, closed, mu>>
    \/ /\ Goes("stream", "open", "cancel")
       /\ busMu' = Waiting(busMu, "stream")
       /\ UNCHANGED <<data, subs, budget, closed, mu>>
    \/ /\ Goes("stream", "cancel", "closing")
       /\ CanLock(busMu, "stream")
       /\ busMu' = Locked(busMu, "stream")
       /\ \E x \in Issued \ Started :
             /\ subs' = Unsubscribe(subs, x[1], x[2])
             /\ closed' = IF CancelCloses(subs, x[1], x[2]) THEN MapPut(closed, x, 1)
                           ELSE closed
       /\ UNCHANGED <<data, budget, mu>>
    \/ /\ Goes("stream", "closing", "done")
       /\ busMu' = WUnlocked(busMu)
       /\ UNCHANGED <<data, subs, budget, closed, mu>>

\* ------------------------------------------------------------ behaviours

\* Payloads callers pass: the test's snapshot, a snapshot as the HTTP facade decodes
\* it, a board that is no list of strings, and no payload.
Board1 == <<"..TT......", "...T......">>
Board2 == <<"XX........">>
PayloadTest ==
    [board |-> GoStrings(Board1), score |-> GoInt(123), lines |-> GoInt(4),
     level |-> GoInt(2), game_over |-> GoBool(FALSE)]
PayloadHTTP ==
    [board |-> GoAnys(<<GoString(Board2[1])>>), score |-> GoFloat(7),
     game_over |-> GoBool(TRUE)]
PayloadBad == [board |-> GoAnys(<<GoFloat(1)>>), score |-> GoInt(5)]
Payloads == {PayloadTest, PayloadHTTP, PayloadBad, EmptyMap}

\* A failing call changes nothing but ret: where ret does not record the operation it
\* is a stuttering step, which every behaviour may take anyway.
Recorded(op, m, err) == <<op, m>> \in observe \/ err = ErrNone

\* Matchmaking steps of the nodes in N, for the player ids I and ping arguments P.
MatchStep(N, I, P) ==
    \/ \E m \in N, id \in I, a \in AppIds :
          /\ Recorded("RegisterPlayer", m, RegisterPlayerErr(m, id))
          /\ RegisterPlayer(m, id, a, DefaultVersion)
    \/ \E m \in N, id \in I, ping \in P :
          /\ Recorded("SetReady", m, SetReadyErr(m, id, ping))
          /\ SetReady(m, id, ping)
    \/ \E m \in N : consumePlayerEvents(m)
    \/ \E m \in N : consumeRoomEvents(m)

\* UpsertPlayer calls of the nodes in N, with the app arguments A and version
\* arguments V.
UpsertStep(N, I, A, V) ==
    \E m \in N, id \in I, a \in A, v \in V :
       /\ Recorded("UpsertPlayer", m, UpsertPlayerErr(m, id, a, v))
       /\ UpsertPlayer(m, id, a, v)

\* ToggleControl calls of the nodes in N, for the player ids I and room ids R.
ToggleStep(N, I, R) ==
    \E m \in N, r \in R, id \in I, mode \in Modes, ag \in AgentIds :
       /\ Recorded("ToggleControl", m, ToggleControlErr(m, r, id, mode))
       /\ ToggleControl(m, r, id, mode, ag)

\* SubmitInput calls of the nodes in N with the payloads Pay, and their continuations.
InputStep(N, I, R, Pay) ==
    \/ \E m \in N, r \in R, id \in I, src \in Sources, act \in Actions, pay \in Pay :
          /\ Recorded("SubmitInput", m, SubmitInputErr(m, r, InputEvent(id, src, act, pay)))
          /\ SubmitInput(m, r, InputEvent(id, src, act, pay))
    \/ \E m \in N : SubmitInputApply(m)
    \/ \E m \in N : SubmitInputPublish(m)

Next == MatchStep(Nodes, OneEach, Pings)

\* Three nodes matching their players; what operations return is not recorded.
Spec == Init /\ [][Next]_vars

\* Three nodes whose three players all get ready.
InitTrio == Managers(Nodes) /\ ret = Idle /\ observe = {} /\ budget = Budget(TrioReady, 0, 0, 0)
SpecTrio == InitTrio /\ [][Next]_vars

Pair == {"A", "B"}

\* Two nodes whose users register, upsert and get ready; what RegisterPlayer and
\* UpsertPlayer return on node A is recorded.
InitAPI ==
    /\ Managers(Pair)
    /\ ret = Idle
    /\ observe = {<<"RegisterPlayer", "A">>, <<"UpsertPlayer", "A">>}
    /\ budget = Budget(ApiReady, ApiUpsert, 0, 0)
NextAPI == MatchStep(Pair, Duo, {0}) \/ UpsertStep(Pair, Duo, AppIds, {EmptyStr, OtherVersion})
SpecAPI == InitAPI /\ [][NextAPI]_vars

\* Two nodes match their players, and the user of node A switches control.
InitControl ==
    /\ Managers(Pair)
    /\ ret = Idle
    /\ observe = {}
    /\ budget = Budget(CtlReady, 0, CtlToggle, 0)
NextControl ==
    \/ MatchStep(Pair, Duo, {0})
    \/ ToggleStep({"A"}, Solo, {RoomName(1)})
SpecControl == InitControl /\ [][NextControl]_vars

\* Two nodes match their players, and the user of node A switches control and submits
\* inputs; what SubmitInput returns is recorded.
InitGate ==
    /\ Managers(Pair)
    /\ ret = Idle
    /\ observe = {<<"SubmitInput", "A">>, <<"SubmitInputReturn", "A">>}
    /\ budget = Budget(GateReady, 0, GateToggle, GateInput)
NextGate ==
    \/ MatchStep(Pair, {Alice, Bob}, {0})
    \/ ToggleStep({"A"}, {Alice}, {RoomName(1)})
    \/ InputStep({"A"}, {Alice}, {RoomName(1)}, {PayloadTest})
SpecGate == InitGate /\ [][NextGate]_vars

\* Three nodes of which two have a user, with replication loops that keep running.
InitLive ==
    /\ Managers(Nodes)
    /\ ret = Idle
    /\ observe = {}
    /\ budget = Budget(LiveReady, 0, 0, 0)
NextLive == MatchStep(Nodes, {Alice, Bob}, Pings)
LoopsRun(N) == \A m \in N : WF_vars(consumePlayerEvents(m)) /\ WF_vars(consumeRoomEvents(m))
SpecLive == InitLive /\ [][NextLive]_vars /\ LoopsRun(Nodes)

\* Two nodes whose matched players submit inputs and snapshots, with replication loops
\* that keep running and SubmitInput calls that run to their return.
InitSync ==
    /\ Managers(Pair)
    /\ ret = Idle
    /\ observe = {}
    /\ budget = Budget(SyncReady, 0, 0, SyncInput)
NextSync ==
    \/ MatchStep(Pair, {Alice, Bob}, {0})
    \/ InputStep(Pair, {Alice, Bob}, {RoomName(1)}, {PayloadTest, PayloadHTTP})
CallsReturn(N) == \A m \in N : WF_vars(SubmitInputApply(m)) /\ WF_vars(SubmitInputPublish(m))
SpecSync == InitSync /\ [][NextSync]_vars /\ LoopsRun(Pair) /\ CallsReturn(Pair)

\* The users of nodes B and C are seated in a room on their own managers.
PairSeated ==
    /\ Bob \in DOMAIN players["B"] /\ players["B"][Bob].RoomID # EmptyStr
    /\ Carol \in DOMAIN players["C"] /\ players["C"][Carol].RoomID # EmptyStr

\* Three nodes: the users of B and C match, and only when both are seated does the
\* user of A register and get ready.
InitThird ==
    /\ Managers(Nodes)
    /\ ret = Idle
    /\ observe = {}
    /\ budget = Budget(ThirdReady, 0, 0, 0)
NextThird ==
    \/ MatchStep(Nodes, {Bob, Carol}, {0})
    \/ PairSeated /\ MatchStep({"A"}, {Alice}, {0})
SpecThird == InitThird /\ [][NextThird]_vars

\* A user whose player is ready calls SetReady again only with the same ping.
SamePing(m, id, ping) ==
    (id \in DOMAIN players[m] /\ players[m][id].Ready) => ping = players[m][id].PingMS

\* Two nodes whose users register and get ready, each with a ping of its own that it
\* keeps, in any order and interleaved in any way with the replication loops.
InitOrder ==
    /\ Managers(Pair)
    /\ ret = Idle
    /\ observe = {}
    /\ budget = Budget(OrderReady, 0, 0, 0)
NextOrder ==
    \/ \E m \in Pair, id \in {Alice, Bob}, a \in AppIds :
          /\ Recorded("RegisterPlayer", m, RegisterPlayerErr(m, id))
          /\ RegisterPlayer(m, id, a, DefaultVersion)
    \/ \E m \in Pair, id \in {Alice, Bob}, ping \in Pings :
          /\ SamePing(m, id, ping)
          /\ Recorded("SetReady", m, SetReadyErr(m, id, ping))
          /\ SetReady(m, id, ping)
    \/ \E m \in Pair : consumePlayerEvents(m)
    \/ \E m \in Pair : consumeRoomEvents(m)
SpecOrder == InitOrder /\ [][NextOrder]_vars

\* Two nodes whose users register, get ready with a ping that may be negative, and on
\* node A upsert with any app and version; what SetReady and UpsertPlayer return on
\* node A is recorded.
InitReady ==
    /\ Managers(Pair)
    /\ ret = Idle
    /\ observe = {<<"SetReady", "A">>, <<"UpsertPlayer", "A">>}
    /\ budget = Budget(ReadyCalls, ReadyUpsert, 0, 0)
NextReady ==
    \/ MatchStep(Pair, Duo, {-1, 1})
    \/ UpsertStep({"A"}, {Alice}, {EmptyStr, OtherApp} \cup AppIds,
                  {EmptyStr, DefaultVersion, OtherVersion})
SpecReady == InitReady /\ [][NextReady]_vars

\* Two nodes match their players, and the user of node A calls ToggleControl with
\* valid and invalid rooms, players and modes; what ToggleControl returns is recorded.
InitSwitch ==
    /\ Managers(Pair)
    /\ ret = Idle
    /\ observe = {<<"ToggleControl", "A">>}
    /\ budget = Budget(SwitchReady, 0, SwitchToggle, 0)
NextSwitch ==
    \/ MatchStep(Pair, {Alice, Bob}, {0})
    \/ ToggleStep({"A"}, Duo, {RoomName(1)})
SpecSwitch == InitSwitch /\ [][NextSwitch]_vars

\* Stream handlers of node m for the rooms R: at most n SubscribeRoom calls, reads
\* from the channels, and cancel calls, also on a handle that was used before.
StreamStep(m, R, n) ==
    \/ \E r \in R : Cardinality(Issued \ Started) < n /\ SubscribeRoom(m, r)
    \/ \E x \in Issued : x[1] \in {topicForRoom(r) : r \in R} /\ StreamReceive(x[1], x[2])
    \/ \E x \in Issued : x[1] \in {topicForRoom(r) : r \in R} /\ cancel(x[1], x[2])

\* Two nodes match their players; node A's user submits inputs while stream handlers
\* subscribe to the room's topic, read and cancel; what node A's SubmitInput calls
\* publish and which cancel handles are invoked is recorded.
InitStream ==
    /\ Managers(Pair)
    /\ ret = Idle
    /\ observe = {<<"SubmitInputReturn", "A">>, <<"cancel", "A">>}
    /\ budget = Budget(StreamReady, 0, 0, StreamInput)
NextStream ==
    \/ MatchStep(Pair, {Alice, Bob}, {0})
    \/ InputStep({"A"}, {Alice}, {RoomName(1)}, {PayloadTest})
    \/ StreamStep("A", {RoomName(1)}, StreamSubs)
SpecStream == InitStream /\ [][NextStream]_vars

\* Two nodes match their players over a bus whose Publish can fail for SubmitInput;
\* node A's user submits an input while a stream handler follows the room's topic;
\* what the Publish calls of A's SubmitInput return is recorded.
InitFallible ==
    /\ Managers(Pair)
    /\ ret = Idle
    /\ observe = {<<"SubmitInputPublish", "A">>, <<"SubmitInputReturn", "A">>}
    /\ budget = Budget(FallibleReady, 0, 0, FallibleInput)
NextFallible ==
    \/ MatchStep(Pair, {Alice, Bob}, {0})
    \/ \E src \in Sources, act \in Actions :
          /\ Recorded("SubmitInput", "A",
                      SubmitInputErr("A", RoomName(1), InputEvent(Alice, src, act, PayloadTest)))
          /\ SubmitInput("A", RoomName(1), InputEvent(Alice, src, act, PayloadTest))
    \/ SubmitInputApply("A")
    \/ \E err \in {ErrNone, ErrPublish} : SubmitInputPublishRoom("A", err)
    \/ \E err \in {ErrNone, ErrPublish} : SubmitInputPublishGlobal("A", err)
    \/ StreamStep("A", {RoomName(1)}, FallibleSubs)
SpecFallible == InitFallible /\ [][NextFallible]_vars

\* Two nodes match their players; node B's replication loops are stalled while node
\* A's user keeps its player under human control with one ToggleControl call after
\* another, each publishing a control_switch_applied; what ToggleControl returns on
\* node A is recorded.
InitFlood ==
    /\ Managers(Pair)
    /\ ret = Idle
    /\ observe = {<<"ToggleControl", "A">>}
    /\ budget = Budget(FloodReady, 0, FloodToggle, 0)
NextFlood ==
    \/ \E m \in Pair, id \in {Alice, Bob}, a \in AppIds :
          /\ RegisterPlayerErr(m, id) = ErrNone
          /\ RegisterPlayer(m, id, a, DefaultVersion)
    \/ \E m \in Pair, id \in {Alice, Bob} :
          /\ SetReadyErr(m, id, 0) = ErrNone
          /\ SetReady(m, id, 0)
    \/ consumePlayerEvents("A")
    \/ consumeRoomEvents("A")
    \/ /\ ToggleControlErr("A", RoomName(1), Alice, ControlHuman) = ErrNone
       /\ ToggleControl("A", RoomName(1), Alice, ControlHuman, EmptyStr)
SpecFlood == InitFlood /\ [][NextFlood]_vars

\* The number of player_ready events node A has published.
Published == FifoReady - budget["SetReady"]

\* Node A's user registers and calls SetReady again and again, the n-th call with
\* ping n, so that A's player_ready events are numbered in publish order; the
\* tetris.player loops of both nodes read at any pace.
InitFifo ==
    /\ Managers(Pair)
    /\ ret = Idle
    /\ observe = {}
    /\ budget = Budget(FifoReady, 0, 0, 0)
NextFifo ==
    \/ \E a \in AppIds :
          /\ RegisterPlayerErr("A", Alice) = ErrNone
          /\ RegisterPlayer("A", Alice, a, DefaultVersion)
    \/ /\ SetReadyErr("A", Alice, Published + 1) = ErrNone
       /\ SetReady("A", Alice, Published + 1)
    \/ \E m \in Pair : consumePlayerEvents(m)
SpecFifo == InitFifo /\ [][NextFifo]_vars

\* The lock-level view of node A on a bus it shares with node B, whose loops are
\* stalled: SetReady calls one after another and the consumePlayerEvents loop run
\* concurrently with one more client, which either calls SubmitInput or opens a room
\* stream and closes it; while some goroutine can take a step, one does.
InitLocks ==
    /\ Managers(Pair)
    /\ ret = Idle
    /\ observe = {}
    /\ budget = Budget(LocksReady, 0, 0, LocksInput)
NextLocks ==
    \/ SetReadyLocks
    \/ consumePlayerEventsLocks
    \/ SubmitInputLocks
    \/ handleRoomStreamLocks
SpecLocks ==
    /\ InitLocks
    /\ [][NextLocks]_vars
    /\ WF_vars(NextLocks)

\* Two nodes whose users register and get ready, the user of node A with either ping
\* and more than once, and upserting with another app or version; what SetReady and
\* UpsertPlayer return on node A is recorded.
InitEcho ==
    /\ Managers(Pair)
    /\ ret = Idle
    /\ observe = {<<"SetReady", "A">>, <<"UpsertPlayer", "A">>}
    /\ budget = Budget(EchoReady, EchoUpsert, 0, 0)
NextEcho ==
    \/ MatchStep(Pair, {Alice, Bob}, Pings)
    \/ UpsertStep({"A"}, {Alice}, {OtherApp} \cup AppIds, {DefaultVersion, OtherVersion})
SpecEcho == InitEcho /\ [][NextEcho]_vars

\* ------------------------------------------- AssemblerRegistry calls

\* What the contract's transactions leave alone.  A call that reverts changes nothing.
offchain ==
    <<players, remote, rooms, states, seq, subs, inflight, ret, observe, created, lastSync,
      budget, closed, locks>>

\* _requests[requestId].id != 0
RequestFound(requestId) == requestId \in 1..Len(registry.requests)

\* The end of approveRequest, rejectRequest and cancelMyPendingRequest: the status, the
\* reviewer, and pendingRequestIdOf of the applicant if it names this request.
Review(c, requestId, status, reviewer) ==
    [c EXCEPT !.requests[requestId].status = status,
              !.requests[requestId].reviewer = reviewer,
              !.pendingRequestIdOf[c.requests[requestId].applicant] =
                  IF @ = requestId THEN 0 ELSE @]

submitContactRequest(sender, noteLength) ==
    /\ noteLength <= MAX_NOTE_LENGTH
    /\ ~registry.isContact[sender]
    /\ registry.pendingRequestIdOf[sender] = 0
    /\ registry.nextRequestId <= RegistryRequests
    /\ registry' =
          [registry EXCEPT
             !.nextRequestId = @ + 1,
             !.requests = Append(@, [id |-> registry.nextRequestId, applicant |-> sender,
                                     note |-> noteLength, status |-> Pending,
                                     reviewer |-> ZeroAddress]),
             !.pendingRequestIdOf[sender] = registry.nextRequestId]
    /\ UNCHANGED offchain

approveRequest(sender, requestId) ==
    /\ sender = registry.owner
    /\ RequestFound(requestId)
    /\ registry.requests[requestId].status = Pending
    /\ <<requestId, sender>> \notin registry.reviewedBy
    /\ \E c \in {Review([registry EXCEPT !.reviewedBy = @ \cup {<<requestId, sender>>}],
                         requestId, Approved, sender)} :
          registry' = IF ~c.isContact[c.requests[requestId].applicant]
                      THEN AddContactInternal(c, c.requests[requestId].applicant)
                      ELSE c
    /\ UNCHANGED offchain

rejectRequest(sender, requestId) ==
    /\ sender = registry.owner
    /\ RequestFound(requestId)
    /\ registry.requests[requestId].status = Pending
    /\ <<requestId, sender>> \notin registry.reviewedBy
    /\ registry' = Review([registry EXCEPT !.reviewedBy = @ \cup {<<requestId, sender>>}],
                          requestId, Rejected, sender)
    /\ UNCHANGED offchain

cancelMyPendingRequest(sender, requestId) ==
    /\ RequestFound(requestId)
    /\ registry.requests[requestId].applicant = sender
    /\ registry.requests[requestId].status = Pending
    /\ registry' = Review(registry, requestId, Cancelled, ZeroAddress)
    /\ UNCHANGED offchain

addContact(sender, who) ==
    /\ sender = registry.owner
    /\ CanAddContact(registry, who)
    /\ registry' = AddContactInternal(registry, who)
    /\ UNCHANGED offchain

removeContact(sender, who) ==
    /\ sender = registry.owner
    /\ CanRemoveContact(registry, who)
    /\ registry' = RemoveContactInternal(registry, who)
    /\ UNCHANGED offchain

\* The accounts call the contract in any order, with any arguments.
InitRegistry ==
    /\ Managers(Pair)
    /\ ret = Idle
    /\ observe = {}
    /\ budget = Budget(0, 0, 0, 0)
NextRegistry ==
    \/ \E sender \in Accounts, n \in NoteLengths : submitContactRequest(sender, n)
    \/ \E sender \in Accounts, id \in 0..RegistryRequests : approveRequest(sender, id)
    \/ \E sender \in Accounts, id \in 0..RegistryRequests : rejectRequest(sender, id)
    \/ \E sender \in Accounts, id \in 0..RegistryRequests : cancelMyPendingRequest(sender, id)
    \/ \E sender \in Accounts, who \in Accounts \cup {ZeroAddress} : addContact(sender, who)
    \/ \E sender \in Accounts, who \in Accounts \cup {ZeroAddress} : removeContact(sender, who)
SpecRegistry == InitRegistry /\ [][NextRegistry]_vars

\* What other clients of the bus may publish on the two global topics: payloads that
\* do not decode, events of an unknown type, events without their body, a player_ready
\* of the remote player who is not ready or who sits in a room, an input that is not
\* a state_sync, and a state_sync for a room that may not exist yet.
PlayerNotices ==
    {Undecodable,
     Event("player_left", EmptyStr, <<MarshalPlayer(NewPlayer(Bob, <<"tetris">>, DefaultVersion))>>,
           << >>, << >>, EmptyMap),
     Event("player_ready", EmptyStr, << >>, << >>, << >>, EmptyMap),
     Event("player_ready", EmptyStr,
           <<MarshalPlayer(NewPlayer(Bob, <<"tetris">>, DefaultVersion))>>, << >>, << >>,
           EmptyMap),
     Event("player_ready", EmptyStr,
           <<MarshalPlayer([NewPlayer(Bob, <<"tetris">>, DefaultVersion)
                              EXCEPT !.Ready = TRUE, !.RoomID = RoomName(1)])>>,
           << >>, << >>, EmptyMap)}
RoomNotices ==
    {Undecodable,
     Event("room_closed", RoomName(1), << >>, << >>, << >>, EmptyMap),
     Event("room_assigned", RoomName(1), << >>, << >>, << >>, EmptyMap),
     Event("room_input", RoomName(1), << >>, << >>,
           <<MarshalInput(InputEvent(Bob, SourceHuman, "move_left", EmptyMap))>>, EmptyMap),
     Event("room_input", RoomName(1), << >>, << >>,
           <<MarshalInput(InputEvent(Bob, SourceHuman, "state_sync", PayloadTest))>>,
           EmptyMap)}

\* MemoryPubSub.Publish called by another client of the bus
PublishRaw(topic, payload) ==
    /\ budget["Publish"] > 0
    /\ budget' = [budget EXCEPT !["Publish"] = @ - 1]
    /\ subs' = Publish(subs, topic, payload)
    /\ Report(Ret("Publish", "C", EmptyStr, <<topic>>, ErrNone, EmptyStr, << >>))
    /\ UNCHANGED <<rest, players, remote, rooms, states, seq, inflight, created, lastSync>>

\* Two nodes match their players while other clients publish on the global topics;
\* what the two replication loops of node A do is recorded.
InitLoops ==
    /\ Managers(Pair)
    /\ ret = Idle
    /\ observe = {<<"consumePlayerEvents", "A">>, <<"consumeRoomEvents", "A">>}
    /\ budget = Budget(LoopsReady, 0, 0, 0) @@ ("Publish" :> LoopsPublish)
NextLoops ==
    \/ MatchStep(Pair, {Alice, Bob}, {0})
    \/ \E payload \in PlayerNotices : PublishRaw(TopicPlayer, payload)
    \/ \E payload \in RoomNotices : PublishRaw(TopicRoom, payload)
SpecLoops == InitLoops /\ [][NextLoops]_vars

\* ------------------------------------------------------------ properties

HasCalledReady(p) == p.Ready \/ p.RoomID # EmptyStr

BothCalled ==
    /\ Alice \in DOMAIN players["A"] /\ HasCalledReady(players["A"][Alice])
    /\ Bob \in DOMAIN players["B"] /\ HasCalledReady(players["B"][Bob])

RoomsOf(m, pair) ==
    {r \in DOMAIN rooms[m] :
        {rooms[m][r].PlayerIDs[i] : i \in 1..Len(rooms[m][r].PlayerIDs)} = pair}

PairMatched ==
    /\ \A m \in Nodes : Cardinality(RoomsOf(m, {Alice, Bob})) = 1
    /\ Alice \in DOMAIN players["A"] /\ Bob \in DOMAIN players["B"]
    /\ players["A"][Alice].RoomID = players["B"][Bob].RoomID
    /\ RoomsOf("A", {Alice, Bob}) = {players["A"][Alice].RoomID}
    /\ \A m \in Nodes : RoomsOf(m, {Alice, Bob}) = RoomsOf("A", {Alice, Bob})

\* C1: once the users of nodes A and B, the only players, have both called SetReady
\* with the same app and version, every manager on the bus eventually holds exactly
\* one room with those two players, and both players' room_id is that room's id.
C1_SingleRoomPerPair == BothCalled ~> PairMatched

C1_Witness == BothCalled /\ PairMatched /\ rooms["C"] # EmptyMap

\* The set of the player ids of a room.
Members(r) == {r.PlayerIDs[i] : i \in 1..Len(r.PlayerIDs)}
\* The lexicographically smaller of the two members of a room.
Smaller(r) == IF StrLess(r.PlayerIDs[2], r.PlayerIDs[1]) THEN r.PlayerIDs[2] ELSE r.PlayerIDs[1]

\* C2: a room is only ever created, and its room_assigned published, by the manager
\* whose local player is the lexicographically smaller of the room's two players, and
\* no pair of players ever has two rooms created for it.
C2_OwnershipTiebreak ==
    /\ \A c \in created :
          /\ Len(c.room.PlayerIDs) = 2
          /\ Smaller(c.room) \in DOMAIN players[c.by]
          /\ Smaller(c.room) \in c.local
    /\ \A c, d \in created : Members(c.room) = Members(d.room) => c = d

\* A room whose host is not its owner was created, while the host's node knew both
\* players and created nothing.
C2_Witness ==
    \E c \in created :
       /\ c.room.HostID # Smaller(c.room)
       /\ \E m \in Nodes \ {c.by} :
             /\ c.room.HostID \in DOMAIN players[m]
             /\ c.room.ID \in DOMAIN rooms[m]
             /\ \A d \in created : d.by # m

\* C3: every room the Matcher creates lists its host first; the host is the member
\* with the strictly lower ping, or with equal pings the lexicographically smaller
\* id, whichever member's node creates the room.
C3_DeterministicHost ==
    \A c \in created :
       LET host == c.room.PlayerIDs[1]
           other == c.room.PlayerIDs[2]
       IN  /\ Len(c.room.PlayerIDs) = 2
           /\ c.room.HostID = host
           /\ host # other
           /\ \/ c.ping[host] < c.ping[other]
              \/ c.ping[host] = c.ping[other] /\ StrLess(host, other)

\* A room created by the node of its second member: the host has the lower ping and
\* the larger id.
C3_Witness ==
    \E c \in created :
       /\ c.ping[c.room.PlayerIDs[1]] < c.ping[c.room.PlayerIDs[2]]
       /\ StrLess(c.room.PlayerIDs[2], c.room.PlayerIDs[1])
       /\ c.local = {c.room.PlayerIDs[2]}

\* C4: the local registry of a manager never holds more than one player.
C4_SingleLocalSeat == \A m \in Nodes : Cardinality(DOMAIN players[m]) <= 1

\* A second id of the same user was refused by both RegisterPlayer and UpsertPlayer
\* while the seat was taken.
C4_Witness ==
    /\ ret.op = "UpsertPlayer"
    /\ ret.err = ErrLocalSeatOccupied
    /\ HomeOf(ret.id) = ret.node
    /\ Cardinality(DOMAIN players[ret.node]) = 1

\* C5: on a manager that holds a local player p, RegisterPlayer(q) and UpsertPlayer(q)
\* with q # p fail with LocalSeatOccupied, RegisterPlayer(p) fails with PlayerExists,
\* and the failing call leaves the registry as it was.
C5_RegistrationErrors ==
    [][\A m \in Nodes :
          (players[m] # EmptyMap /\ ret'.node = m) =>
             /\ (ret'.op = "RegisterPlayer" /\ ret'.id \notin DOMAIN players[m]) =>
                    ret'.err = ErrLocalSeatOccupied /\ players' = players
             /\ (ret'.op = "RegisterPlayer" /\ ret'.id \in DOMAIN players[m]) =>
                    ret'.err = ErrPlayerExists /\ players' = players
             /\ (ret'.op = "UpsertPlayer" /\ ret'.id \notin DOMAIN players[m]) =>
                    ret'.err = ErrLocalSeatOccupied /\ players' = players]_vars

\* RegisterPlayer was refused for the id that holds the seat, its player in a room.
C5_Witness ==
    /\ ret.op = "RegisterPlayer"
    /\ ret.err = ErrPlayerExists
    /\ ret.id \in DOMAIN players[ret.node]
    /\ players[ret.node][ret.id].RoomID # EmptyStr

\* The player is local on m, a member of the room, and seated in it.
SeatedMember(m, roomID, id) ==
    /\ roomID \in DOMAIN rooms[m]
    /\ contains(rooms[m][roomID].PlayerIDs, id)
    /\ id \in DOMAIN players[m]
    /\ players[m][id].RoomID = roomID

\* C6: for a local player seated in the room, SubmitInput passes its checks exactly
\* when the input's source equals the player's control mode at the call; a mismatch
\* returns ControlModeMismatch, publishes nothing and leaves the state store alone; a
\* call that passed its checks publishes and returns nil.
C6_InputGating ==
    [][/\ (ret'.op = "SubmitInput" /\ SeatedMember(ret'.node, ret'.arg[1], ret'.id)) =>
            /\ (ret'.err = "validated") <=>
                  (ret'.arg[2] = players[ret'.node][ret'.id].ControlMode)
            /\ ret'.err # "validated" =>
                  /\ ret'.err = ErrControlModeMismatch
                  /\ subs' = subs
                  /\ states' = states
                  /\ inflight' = inflight
       /\ ret'.op = "SubmitInputReturn" =>
            /\ ret'.err = ErrNone
            /\ inflight[ret'.node] # NoInput
            /\ subs' # subs]_vars

\* A human input was refused for a player under agent control.
C6_Witness ==
    /\ ret.op = "SubmitInput"
    /\ ret.err = ErrControlModeMismatch
    /\ ret.arg[2] = SourceHuman
    /\ SeatedMember(ret.node, ret.arg[1], ret.id)
    /\ players[ret.node][ret.id].ControlMode = ControlAgent

\* C7: every local player under human control has an empty agent_id, and every local
\* player under agent control a non-empty one.
C7_ControlModeInvariant ==
    \A m \in Nodes : \A id \in DOMAIN players[m] :
       /\ players[m][id].ControlMode = ControlHuman => players[m][id].AgentID = EmptyStr
       /\ players[m][id].ControlMode = ControlAgent => players[m][id].AgentID # EmptyStr

\* The room_assigned event, if any, that consumeRoomEvents of m installs in this step.
Delivered(m) ==
    IF /\ roomCh(m) \in DOMAIN subs[TopicRoom]
       /\ Len(subs'[TopicRoom][roomCh(m)]) < Len(subs[TopicRoom][roomCh(m)])
       /\ Head(subs[TopicRoom][roomCh(m)]).Type = "room_assigned"
       /\ Head(subs[TopicRoom][roomCh(m)]).Room # << >>
    THEN {Head(subs[TopicRoom][roomCh(m)]).Room[1]}
    ELSE {}

\* The state after the step has room r installed on m.
InstallEffect(m, r, ids) ==
    /\ r \in DOMAIN rooms'[m]
    /\ \A i \in 1..Len(ids) :
          /\ ids[i] \notin DOMAIN remote'[m]
          /\ ids[i] \in DOMAIN players'[m] =>
                /\ players'[m][ids[i]].RoomID = r
                /\ ~players'[m][ids[i]].Ready
                /\ players'[m][ids[i]].ControlMode = ControlHuman
                /\ players'[m][ids[i]].AgentID = EmptyStr

\* A local player in a room is not ready.
SeatedNotReady ==
    \A m \in Nodes : \A id \in DOMAIN players[m] :
       players[m][id].RoomID # EmptyStr => ~players[m][id].Ready

\* C9: right after a room is installed on a manager, by its Matcher or from a
\* room_assigned event, every local member has the room's id as room_id, is not ready
\* and is under human control with no agent, and no member is in the remote view; and a
\* local player with a room_id is never ready.
C9_RoomInstallation ==
    /\ [][\A m \in Nodes :
             /\ \A c \in created' \ created :
                   c.by = m => InstallEffect(m, c.room.ID, c.room.PlayerIDs)
             /\ \A w \in Delivered(m) : InstallEffect(m, w["id"], w["player_ids"])]_vars
    /\ []SeatedNotReady

\* The one ToggleControl call switched node A's player to agent control, and a
\* room_assigned installed after it put the player back under human control; node B
\* has seated its player.
C9_Witness ==
    /\ budget["ToggleControl"] = 0
    /\ subs[TopicRoom][roomCh("A")] # << >>
    /\ LET evt == Head(subs[TopicRoom][roomCh("A")])
       IN  /\ evt.Type = "control_switch_applied"
           /\ evt.Meta.to_mode = ControlAgent
           /\ players["A"][evt.Meta.player_id].ControlMode = ControlHuman
           /\ players["A"][evt.Meta.player_id].RoomID = evt.RoomID
    /\ \E r \in DOMAIN rooms["B"] : \E id \in DOMAIN players["B"] : players["B"][id].RoomID = r

\* C10: a room in a manager's table stays there with the same members and host.
C10_RoomPersistence ==
    [][\A m \in Nodes : \A r \in DOMAIN rooms[m] :
          /\ r \in DOMAIN rooms'[m]
          /\ rooms'[m][r].PlayerIDs = rooms[m][r].PlayerIDs
          /\ rooms'[m][r].HostID = rooms[m][r].HostID]_vars

\* The payloads whose board is a list of strings.
Snapshots == {pay \in Payloads : "board" \in DOMAIN pay /\ toStringSlice(pay["board"])[1]}

\* The last state_sync that returned for player id carried payload pay.
LastSynced(id, pay) == id \in DOMAIN lastSync /\ lastSync[id] = pay

\* GetRoomStates(roomID) on m has an entry for id with the board and score of pay.
Shows(m, roomID, id, pay) ==
    /\ GetRoomStates(m, roomID)[1] = ErrNone
    /\ id \in DOMAIN GetRoomStates(m, roomID)[2]
    /\ GetRoomStates(m, roomID)[2][id].Board = toStringSlice(pay["board"])[2]
    /\ GetRoomStates(m, roomID)[2][id].Score = pay["score"].v

\* C8: once a state_sync of a matched player with a board B has returned, then unless a
\* later state_sync of that player returns, GetRoomStates on both managers eventually
\* shows the player's entry with board B and the submitted score.
C8_StateRoundTrip ==
    \A id \in {Alice, Bob} : \A pay \in Snapshots :
       LastSynced(id, pay) ~>
          (~LastSynced(id, pay) \/ \A m \in Pair : Shows(m, RoomName(1), id, pay))

\* Both managers show the snapshot node B's player sent as the HTTP facade decodes it.
C8_Witness ==
    /\ LastSynced(Bob, PayloadHTTP)
    /\ \A m \in Pair : Shows(m, RoomName(1), Bob, PayloadHTTP)
    /\ \A m \in Pair : subs[TopicRoom][roomCh(m)] = << >>

\* C11: every room in every manager's room table has exactly two player ids, the two
\* are distinct, and the host is one of them.
C11_RoomWellFormed ==
    \A m \in Nodes : \A r \in DOMAIN rooms[m] :
       /\ Len(rooms[m][r].PlayerIDs) = 2
       /\ rooms[m][r].PlayerIDs[1] # rooms[m][r].PlayerIDs[2]
       /\ contains(rooms[m][r].PlayerIDs, rooms[m][r].HostID)

\* All three managers hold a room, created by their Matcher or installed from a
\* room_assigned event, and a room exists whose host is not its smaller member.
C11_Witness ==
    /\ \A m \in Nodes : rooms[m] # EmptyMap
    /\ \E c \in created : c.room.HostID # Smaller(c.room)

\* C12: no member the Matcher selects has a room_id in the view of the manager that
\* runs it, and a local player that is in a room before a step is in no room the
\* step's Matcher creates.
C12_CandidatesUnassigned ==
    /\ [](\A c \in created : \A id \in DOMAIN c.assigned : c.assigned[id] = EmptyStr)
    /\ [][\A c \in created' \ created : \A id \in DOMAIN players[c.by] :
             players[c.by][id].RoomID # EmptyStr => ~contains(c.room.PlayerIDs, id)]_vars

\* A manager whose local player is seated in a room holds a ready player in its remote
\* view: its Matcher ran on the two and created nothing.
C12_Witness ==
    \E m \in Nodes : \E id \in DOMAIN players[m] :
       /\ players[m][id].RoomID # EmptyStr
       /\ \E x \in DOMAIN remote[m] :
             IsCandidate(remote[m][x], players[m][id].AppID, players[m][id].Version)
       /\ \A c \in created : c.by # m

\* C13: once two players are matched and seated in a room, a third player that then
\* registers and calls SetReady causes no manager to create a room, whatever the order
\* of deliveries on tetris.player and tetris.room.
C13_ThirdPlayerNoOp == [][PairSeated => created' = created]_vars

\* The member list of the room of nodes A's and B's players, from the pings their
\* users called SetReady with.
ExpectedMembers ==
    IF players["B"][Bob].PingMS < players["A"][Alice].PingMS
    THEN <<Bob, Alice>>
    ELSE <<Alice, Bob>>

\* C14: with two managers and two players whose pings are fixed, whatever the order of
\* the SetReady calls and of the deliveries, at most one room is created, its creator
\* is the manager of the smaller id, and its member list and host are the ones the ids
\* and pings determine.
C14_ArrivalOrderIndependence ==
    /\ Cardinality(created) <= 1
    /\ \A c \in created :
          /\ c.by = HomeOf(Alice)
          /\ c.room.PlayerIDs = ExpectedMembers
          /\ c.room.HostID = ExpectedMembers[1]

\* Node A created the room in its SetReady call, hosted by node B's player with the
\* lower ping, while node B has yet to consume every player_ready event.
C14_Witness ==
    /\ \E c \in created : c.room.PlayerIDs = <<Bob, Alice>>
    /\ Len(subs[TopicPlayer][playerCh("B")]) = 2
    /\ Len(subs[TopicPlayer][playerCh("A")]) = 1
    /\ Head(subs[TopicPlayer][playerCh("A")]).Player[1]["id"] = Alice

\* C15: when consumeRoomEvents takes a room_assigned for a room its manager already
\* holds under that id with the same members and host, the room table is unchanged;
\* and no Matcher creates a room for a pair that already has a room in its manager's
\* table or was given one before.
C15_IdempotentReplication ==
    /\ [][\A m \in Nodes :
             /\ \A w \in Delivered(m) :
                   (/\ w["id"] \in DOMAIN rooms[m]
                    /\ rooms[m][w["id"]].PlayerIDs = w["player_ids"]
                    /\ rooms[m][w["id"]].HostID = w["host_id"]) => rooms'[m] = rooms[m]
             /\ \A c \in created' \ created :
                   c.by = m => \A r \in DOMAIN rooms[m] :
                                  Members(rooms[m][r]) # Members(c.room)]_vars
    /\ [](\A c, d \in created : Members(c.room) = Members(d.room) => c.room = d.room)

\* The creator of a room has consumed its own room_assigned and every later event, and
\* holds the room it created as its only room.
C15_Witness ==
    \E c \in created :
       /\ subs[TopicRoom][roomCh(c.by)] = << >>
       /\ subs[TopicPlayer][playerCh(c.by)] = << >>
       /\ DOMAIN rooms[c.by] = {c.room.ID}
       /\ rooms[c.by][c.room.ID] = c.room
       /\ Cardinality(created) = 1

\* C16: SetReady returns PingNegative for a negative ping whoever the player is,
\* PlayerNotFound for an id that is not a local player, AlreadyInRoom for a local
\* player with a room_id, and nil otherwise; a failing call changes no player, view,
\* room or counter, publishes nothing and creates no room.
C16_SetReadyErrors ==
    [][ret'.op = "SetReady" =>
          LET m == ret'.node
              id == ret'.id
              ping == ret'.arg[1]
          IN  /\ ping < 0 => ret'.err = ErrPingRequiredForReady
              /\ (ping >= 0 /\ id \notin DOMAIN players[m]) => ret'.err = ErrPlayerNotFound
              /\ (ping >= 0 /\ id \in DOMAIN players[m]) =>
                    IF players[m][id].RoomID # EmptyStr
                    THEN ret'.err = ErrAlreadyInRoom
                    ELSE ret'.err = ErrNone
              /\ ret'.err # ErrNone =>
                    /\ ret'.pubs = << >>
                    /\ ret'.room = EmptyStr
                    /\ UNCHANGED <<players, remote, rooms, seq, subs, created>>]_vars

\* SetReady with a negative ping for an id that is not local returned PingNegative,
\* on a manager whose own player is seated in a room.
C16_Witness ==
    /\ ret.op = "SetReady"
    /\ ret.err = ErrPingRequiredForReady
    /\ ret.id \notin DOMAIN players[ret.node]
    /\ \E id \in DOMAIN players[ret.node] : players[ret.node][id].RoomID # EmptyStr

\* The step appended to channel ch of tetris.player one player_ready event of player
\* id, ready and with the given ping.
PublishedReady(ch, id, ping) ==
    /\ Len(subs'[TopicPlayer][ch]) = Len(subs[TopicPlayer][ch]) + 1
    /\ SubSeq(subs'[TopicPlayer][ch], 1, Len(subs[TopicPlayer][ch])) = subs[TopicPlayer][ch]
    /\ LET evt == subs'[TopicPlayer][ch][Len(subs'[TopicPlayer][ch])]
       IN  /\ evt.Type = "player_ready"
           /\ evt.Player # << >>
           /\ evt.Player[1]["id"] = id
           /\ evt.Player[1]["ready"] = TRUE
           /\ evt.Player[1]["ping_ms"] = ping

\* C17: a successful SetReady(id, ping) stores the ping, publishes one player_ready
\* event that shows the player ready with that ping, and runs the Matcher; it returns
\* a room exactly when this call created one, and then id is a member of the returned
\* room, the room is in the manager's table and the player is seated in it; when it
\* returns none the player is ready and the room table is as before the call.
C17_SetReadyResult ==
    [][(ret'.op = "SetReady" /\ ret'.err = ErrNone) =>
          LET m == ret'.node
              id == ret'.id
              ping == ret'.arg[1]
          IN  /\ players'[m][id].PingMS = ping
              /\ ret'.pubs[1] = <<TopicPlayer, "player_ready">>
              /\ \A ch \in DOMAIN subs[TopicPlayer] : PublishedReady(ch, id, ping)
              /\ (ret'.room # EmptyStr) <=> (created' # created)
              /\ ret'.room # EmptyStr =>
                    /\ \E c \in created' \ created : c.by = m /\ c.room.ID = ret'.room
                    /\ ret'.room \in DOMAIN rooms'[m]
                    /\ contains(rooms'[m][ret'.room].PlayerIDs, id)
                    /\ players'[m][id].RoomID = ret'.room
                    /\ Len(ret'.pubs) = 3
              /\ ret'.room = EmptyStr =>
                    /\ rooms' = rooms
                    /\ players'[m][id].Ready
                    /\ players'[m][id].RoomID = EmptyStr
                    /\ Len(ret'.pubs) = 1]_vars

\* A SetReady call on node A returned the room it created, in which its player is
\* seated and no longer ready.
C17_Witness ==
    /\ ret.op = "SetReady"
    /\ ret.err = ErrNone
    /\ ret.room # EmptyStr
    /\ ret.room \in DOMAIN rooms[ret.node]
    /\ players[ret.node][ret.id].RoomID = ret.room
    /\ ~players[ret.node][ret.id].Ready
    /\ players[ret.node][ret.id].PingMS = 1

\* C18: UpsertPlayer on a local player seated in a room fails with AlreadyInRoom when
\* the app_id or the version given is non-empty and differs from the stored one, and
\* leaves the player as it was; otherwise it succeeds and the player's app_id, version,
\* room_id, ready flag and control mode are as before.
C18_UpsertMatchedPlayer ==
    [][(/\ ret'.op = "UpsertPlayer"
        /\ ret'.id \in DOMAIN players[ret'.node]
        /\ players[ret'.node][ret'.id].RoomID # EmptyStr) =>
          LET p == players[ret'.node][ret'.id]
              q == players'[ret'.node][ret'.id]
              appID == ret'.arg[1]
              version == ret'.arg[2]
              changes == \/ appID # EmptyStr /\ appID # p.AppID
                         \/ version # EmptyStr /\ version # p.Version
          IN  /\ changes => ret'.err = ErrAlreadyInRoom /\ players' = players
              /\ ~changes =>
                    /\ ret'.err = ErrNone
                    /\ q.AppID = p.AppID /\ q.Version = p.Version
                    /\ q.RoomID = p.RoomID /\ q.Ready = p.Ready
                    /\ q.ControlMode = p.ControlMode]_vars

\* UpsertPlayer with the stored app and another version was refused for a player in
\* a room.
C18_Witness ==
    /\ ret.op = "UpsertPlayer"
    /\ ret.err = ErrAlreadyInRoom
    /\ ret.arg[1] = players[ret.node][ret.id].AppID
    /\ ret.arg[2] = OtherVersion
    /\ players[ret.node][ret.id].RoomID # EmptyStr
    /\ players[ret.node][ret.id].Version = DefaultVersion

\* The step appended to channel ch of tetris.room one control_switch_applied event of
\* the room, naming the player, the mode it had and the mode it has.
PublishedSwitch(ch, roomID, id, from, to) ==
    /\ Len(subs'[TopicRoom][ch]) = Len(subs[TopicRoom][ch]) + 1
    /\ SubSeq(subs'[TopicRoom][ch], 1, Len(subs[TopicRoom][ch])) = subs[TopicRoom][ch]
    /\ LET evt == subs'[TopicRoom][ch][Len(subs'[TopicRoom][ch])]
       IN  /\ evt.Type = "control_switch_applied"
           /\ evt.RoomID = roomID
           /\ evt.Meta.player_id = id
           /\ evt.Meta.from_mode = from
           /\ evt.Meta.to_mode = to

\* C19: a successful ToggleControl(room, player, to_mode, agent_id) leaves the player
\* with control_mode = to_mode, with the given agent_id after a switch to agent and
\* with none after a switch to human; whether or not the mode changes it publishes one
\* control_switch_applied on the room's topic and then one on tetris.room, and it
\* changes nothing else of the player, no other player, no room and no stored state.
C19_ControlModeFSM ==
    [][(ret'.op = "ToggleControl" /\ ret'.err = ErrNone) =>
          LET m == ret'.node
              id == ret'.id
              roomID == ret'.arg[1]
              to == ret'.arg[2]
              agentID == ret'.arg[3]
          IN  /\ players'[m][id].ControlMode = to
              /\ to = ControlAgent => players'[m][id].AgentID = agentID
              /\ to = ControlHuman => players'[m][id].AgentID = EmptyStr
              /\ ret'.pubs = << <<topicForRoom(roomID), "control_switch_applied">>,
                                <<TopicRoom, "control_switch_applied">> >>
              /\ \A ch \in DOMAIN subs[TopicRoom] :
                    PublishedSwitch(ch, roomID, id, players[m][id].ControlMode, to)
              /\ subs'[TopicPlayer] = subs[TopicPlayer]
              /\ players' = [players EXCEPT ![m][id].ControlMode = players'[m][id].ControlMode,
                                             ![m][id].AgentID = players'[m][id].AgentID]
              /\ UNCHANGED <<remote, rooms, states, seq, created>>]_vars

\* The second ToggleControl call switched node A's player from agent back to human:
\* its agent_id is cleared, and both switches are on node B's tetris.room channel.
C19_Witness ==
    /\ ret.op = "ToggleControl"
    /\ ret.err = ErrNone
    /\ ret.arg[2] = ControlHuman
    /\ players[ret.node][ret.id].AgentID = EmptyStr
    /\ LET q == subs[TopicRoom][roomCh("B")]
       IN  /\ Len(q) >= 2
           /\ q[Len(q)].Type = "control_switch_applied"
           /\ q[Len(q)].Meta.from_mode = ControlAgent
           /\ q[Len(q) - 1].Type = "control_switch_applied"
           /\ q[Len(q) - 1].Meta.agent_id # EmptyStr

\* C20: ToggleControl returns InvalidControlMode for a target that is neither human
\* nor agent, else RoomNotFound for a room the manager does not hold, else
\* PlayerNotRoomMember for an id that is not in the room's player_ids, else
\* PlayerNotFound for an id that is not local, else PlayerNotInRoom for a local player
\* whose room_id is not the argument; a failing call changes no player and publishes
\* nothing.
C20_ToggleControlErrors ==
    [][ret'.op = "ToggleControl" =>
          LET m == ret'.node
              id == ret'.id
              roomID == ret'.arg[1]
              to == ret'.arg[2]
              badMode == to \notin {ControlHuman, ControlAgent}
              noRoom == roomID \notin DOMAIN rooms[m]
              notMember == ~noRoom /\ ~contains(rooms[m][roomID].PlayerIDs, id)
              notLocal == id \notin DOMAIN players[m]
              elsewhere == ~notLocal /\ players[m][id].RoomID # roomID
          IN  /\ badMode => ret'.err = ErrInvalidControlMode
              /\ (~badMode /\ noRoom) => ret'.err = ErrRoomNotFound
              /\ (~badMode /\ ~noRoom /\ notMember) => ret'.err = ErrPlayerNotRoomMember
              /\ (~badMode /\ ~noRoom /\ ~notMember /\ notLocal) =>
                    ret'.err = ErrPlayerNotFound
              /\ (~badMode /\ ~noRoom /\ ~notMember /\ ~notLocal /\ elsewhere) =>
                    ret'.err = ErrPlayerNotInRoom
              /\ (~badMode /\ ~noRoom /\ ~notMember /\ ~notLocal /\ ~elsewhere) =>
                    ret'.err = ErrNone
              /\ ret'.err # ErrNone =>
                    /\ ret'.pubs = << >>
                    /\ UNCHANGED <<players, subs, rooms, states>>]_vars

\* ToggleControl for a member of the room that is another node's player returned
\* PlayerNotFound, on a manager whose own player is seated in the room under agent
\* control.
C20_Witness ==
    /\ ret.op = "ToggleControl"
    /\ ret.err = ErrPlayerNotFound
    /\ ret.arg[1] \in DOMAIN rooms[ret.node]
    /\ contains(rooms[ret.node][ret.arg[1]].PlayerIDs, ret.id)
    /\ \E id \in DOMAIN players[ret.node] :
          /\ players[ret.node][id].RoomID = ret.arg[1]
          /\ players[ret.node][id].ControlMode = ControlAgent

\* No SubmitInput call has got past its checks yet: none is in progress and no
\* state_sync has returned.
NoSyncYet == lastSync = EmptyMap /\ \A m \in Nodes : inflight[m] = NoInput

\* C21: GetRoomStates returns RoomNotFound exactly for a room id that is not in the
\* manager's room table; for a room in the table it returns nil and the snapshots
\* stored for the room, the empty map when the room has no state bucket yet or no
\* state_sync has been applied.
C21_GetRoomStates ==
    \A m \in Nodes : \A roomID \in {RoomName(1), RoomName(2)} :
       LET res == GetRoomStates(m, roomID)
       IN  /\ res[1] \in {ErrNone, ErrRoomNotFound}
           /\ (res[1] = ErrRoomNotFound) <=> (roomID \notin DOMAIN rooms[m])
           /\ roomID \in DOMAIN rooms[m] =>
                 /\ roomID \in DOMAIN states[m] => res[2] = states[m][roomID]
                 /\ roomID \notin DOMAIN states[m] => res[2] = EmptyMap
                 /\ NoSyncYet => res[2] = EmptyMap

\* Node A holds the room its Matcher created and has not yet taken its own
\* room_assigned, so the room has no state bucket: GetRoomStates returns the empty map
\* on A and RoomNotFound on B.
C21_Witness ==
    /\ RoomName(1) \in DOMAIN rooms["A"]
    /\ RoomName(1) \notin DOMAIN states["A"]
    /\ GetRoomStates("A", RoomName(1)) = <<ErrNone, EmptyMap>>
    /\ GetRoomStates("B", RoomName(1))[1] = ErrRoomNotFound

\* The room_input event a SubmitInput call of node m that passed its checks publishes.
InputMessage(m) ==
    Event("room_input", inflight[m][1].roomID, << >>, << >>,
          <<MarshalInput(inflight[m][1].in)>>, << >>)

\* C23: the two Publish calls of a SubmitInput put the event at the tail of every
\* subscription that exists on the per-room topic and on the global topic at that
\* moment and has buffer space left, the publishing manager's own subscription
\* included; subscriptions of any other topic, and the set of subscriptions, are
\* left as they were.
C23_SelfDelivery ==
    [][ret'.op = "SubmitInputReturn" /\ ret'.err = ErrNone =>
          /\ DOMAIN subs' = DOMAIN subs
          /\ \A t \in DOMAIN subs :
                /\ DOMAIN subs'[t] = DOMAIN subs[t]
                /\ \A id \in DOMAIN subs[t] :
                      subs'[t][id] =
                         IF /\ t \in {ret'.pubs[i][1] : i \in DOMAIN ret'.pubs}
                            /\ Len(subs[t][id]) < BufCap
                         THEN Append(subs[t][id], InputMessage(ret'.node))
                         ELSE subs[t][id]]_vars

\* Node A's SubmitInput has just returned: its event is the last message of A's own
\* tetris.room subscription, of B's, and of two stream subscriptions of the room's
\* topic, and no tetris.player subscription holds a room_input.
C23_Witness ==
    /\ ret.op = "SubmitInputReturn"
    /\ \A m \in Pair :
          /\ subs[TopicRoom][roomCh(m)] # << >>
          /\ subs[TopicRoom][roomCh(m)][Len(subs[TopicRoom][roomCh(m)])].Type = "room_input"
    /\ topicForRoom(RoomName(1)) \in DOMAIN subs
    /\ Cardinality(DOMAIN subs[topicForRoom(RoomName(1))]) = 2
    /\ \A id \in DOMAIN subs[topicForRoom(RoomName(1))] :
          /\ subs[topicForRoom(RoomName(1))][id] # << >>
          /\ subs[topicForRoom(RoomName(1))][id][1].Type = "room_input"
    /\ \A id \in DOMAIN subs[TopicPlayer] :
          \A i \in DOMAIN subs[TopicPlayer][id] : subs[TopicPlayer][id][i].Type # "room_input"

\* The subscriptions in the fan-out table.
Subscribed == UNION {{<<t, id>> : id \in DOMAIN subs[t]} : t \in DOMAIN subs}

\* C26: no channel is closed twice and no closed channel is in the fan-out table, so
\* that no Publish sends on it or enqueues to it; a cancel of a subscription in the
\* table closes its channel and removes it, the topic too when it was the last one;
\* a cancel invoked again changes nothing; either way the other subscriptions stay
\* in the table with their messages.
C26_CancelSubscription ==
    /\ [](/\ \A x \in DOMAIN closed : closed[x] = 1
          /\ DOMAIN closed \cap Subscribed = {})
    /\ [][ret'.op = "cancel" =>
            LET x == <<ret'.arg[1], ret'.arg[2]>>
            IN  /\ x \in Subscribed => x \in DOMAIN closed' /\ x \notin DOMAIN closed
                /\ x \notin Subscribed => closed' = closed /\ subs' = subs
                /\ \A y \in Subscribed \ {x} :
                      /\ y[1] \in DOMAIN subs'
                      /\ y[2] \in DOMAIN subs'[y[1]]
                      /\ subs'[y[1]][y[2]] = subs[y[1]][y[2]]
                /\ \A t \in DOMAIN subs' : t \in DOMAIN subs /\ DOMAIN subs'[t] # {}
                /\ \A t \in DOMAIN subs : DOMAIN subs[t] \ {x[2]} # {} => t \in DOMAIN subs']_vars

\* Node A's SubmitInput has just returned after a stream subscription of the room's
\* topic was cancelled: the closed channel is out of the table and the other stream
\* subscription has the event as its last message.
C26_Witness ==
    /\ ret.op = "SubmitInputReturn"
    /\ \E x \in {y \in DOMAIN closed : y[1] \in DOMAIN subs} : \E id \in DOMAIN subs[x[1]] :
          /\ x[1] = ret.pubs[1][1]
          /\ subs[x[1]][id] # << >>
          /\ subs[x[1]][id][Len(subs[x[1]][id])].Type = "room_input"

\* C22: SubmitInput publishes on the per-room topic first; when that Publish fails
\* the call returns its error with nothing published and nothing undone; only after
\* it succeeded does the call publish on tetris.room, and when that Publish fails the
\* call returns its error with the per-room subscribers already served; no return
\* changes the state store, and tetris.room gets a room_input only from a call whose
\* per-room Publish is done.
C22_SubmitInputPublication ==
    [][/\ ret'.op = "SubmitInputPublish" =>
            /\ ret'.err = ErrNone
            /\ inflight[ret'.node][1].pc = "publish"
            /\ subs' = Publish(subs, topicForRoom(ret'.room), InputMessage(ret'.node))
            /\ states' = states
       /\ ret'.op = "SubmitInputReturn" /\ inflight[ret'.node][1].pc = "publish" =>
            /\ ret'.err # ErrNone
            /\ ret'.pubs = << >>
            /\ subs' = subs
            /\ states' = states
       /\ ret'.op = "SubmitInputReturn" /\ inflight[ret'.node][1].pc = "global" =>
            /\ ret'.err = ErrNone =>
                  /\ ret'.pubs = PubsRoom("room_input", ret'.room)
                  /\ subs' = Publish(subs, TopicRoom, InputMessage(ret'.node))
            /\ ret'.err # ErrNone =>
                  /\ ret'.pubs = << <<topicForRoom(ret'.room), "room_input">> >>
                  /\ subs' = subs
            /\ states' = states
       /\ \A id \in DOMAIN subs[TopicRoom] :
             /\ Len(subs'[TopicRoom][id]) > Len(subs[TopicRoom][id])
             /\ subs'[TopicRoom][id][Len(subs'[TopicRoom][id])].Type = "room_input"
             => \E m \in Nodes : inflight[m] # NoInput /\ inflight[m][1].pc = "global"]_vars

\* Node A's state_sync has just returned the error of the Publish on tetris.room:
\* the stream subscription of the room's topic holds the event, no tetris.room
\* subscription does, and A's state store holds the snapshot.
C22_Witness ==
    /\ ret.op = "SubmitInputReturn"
    /\ ret.err = ErrPublish
    /\ ret.arg[3] = "state_sync"
    /\ ret.pubs = << <<topicForRoom(RoomName(1)), "room_input">> >>
    /\ topicForRoom(RoomName(1)) \in DOMAIN subs
    /\ \E id \in DOMAIN subs[topicForRoom(RoomName(1))] :
          /\ subs[topicForRoom(RoomName(1))][id] # << >>
          /\ subs[topicForRoom(RoomName(1))][id][1].Type = "room_input"
    /\ \A id \in DOMAIN subs[TopicRoom] :
          \A i \in DOMAIN subs[TopicRoom][id] : subs[TopicRoom][id][i].Type # "room_input"
    /\ RoomName(1) \in DOMAIN states["A"]
    /\ Alice \in DOMAIN states["A"][RoomName(1)]

\* C25: no subscription ever buffers more than 64 messages; a ToggleControl whose
\* Publish calls meet full buffers returns nil all the same, a subscription whose
\* buffer holds 64 messages keeps exactly these, and every other subscription of the
\* topic gets the event at its tail.
C25_NonBlockingFanOut ==
    /\ [](\A t \in DOMAIN subs : \A id \in DOMAIN subs[t] : Len(subs[t][id]) <= BufCap)
    /\ [][ret'.op = "ToggleControl" =>
            /\ ret'.err = ErrNone
            /\ \A t \in {ret'.pubs[i][1] : i \in DOMAIN ret'.pubs} \cap DOMAIN subs :
                  \A id \in DOMAIN subs[t] :
                     /\ Len(subs[t][id]) = BufCap => subs'[t][id] = subs[t][id]
                     /\ Len(subs[t][id]) < BufCap =>
                           /\ Len(subs'[t][id]) = Len(subs[t][id]) + 1
                           /\ SubSeq(subs'[t][id], 1, Len(subs[t][id])) = subs[t][id]
                           /\ subs'[t][id][Len(subs'[t][id])].Type = "control_switch_applied"]_vars

\* Node A's ToggleControl has just returned after more publications than a buffer
\* takes: stalled node B's tetris.room buffer is full and has lost events, node A's
\* has room and holds the last event at its tail.
C25_Witness ==
    /\ ret.op = "ToggleControl"
    /\ budget["ToggleControl"] = 0
    /\ Len(subs[TopicRoom][roomCh("B")]) = BufCap
    /\ Len(subs[TopicRoom][roomCh("A")]) \in 1 .. (BufCap - 1)
    /\ subs[TopicRoom][roomCh("A")][Len(subs[TopicRoom][roomCh("A")])].Type
          = "control_switch_applied"

\* The numbers of the events buffered in subscription id of tetris.player, head first.
Buffered(id) ==
    [i \in DOMAIN subs[TopicPlayer][id] |-> subs[TopicPlayer][id][i].Player[1]["ping_ms"]]

\* The number of the last event node m's loop took from tetris.player, if any,
\* followed by the numbers of the buffered events.
Arrivals(m) ==
    (IF Alice \in DOMAIN remote[m] THEN <<remote[m][Alice].PingMS>> ELSE << >>)
       \o Buffered(playerCh(m))

\* C24: on every tetris.player subscription the events of node A arrive in publish
\* order: the numbers of the buffered events increase strictly from the head and are
\* numbers of published events, the last event received precedes them all, and what
\* a loop receives next has a greater number than what it received before.
C24_PerPublisherFIFO ==
    /\ [](\A m \in Pair :
            /\ \A i \in DOMAIN Arrivals(m) : Arrivals(m)[i] \in 1 .. Published
            /\ \A i, j \in DOMAIN Arrivals(m) : i < j => Arrivals(m)[i] < Arrivals(m)[j])
    /\ [][\A m \in Pair :
            Alice \in DOMAIN remote[m] /\ remote'[m] # remote[m] =>
               remote'[m][Alice].PingMS > remote[m][Alice].PingMS]_vars

\* Node B has received event 2, events 3 to 5 wait in its buffer, and node A, which
\* has not read its own subscription, has published them all.
C24_Witness ==
    /\ Alice \in DOMAIN remote["B"]
    /\ Arrivals("B") = <<2, 3, 4, 5>>
    /\ Buffered(playerCh("A")) = <<1, 2, 3, 4, 5>>

\* C29: no player is a member of two created rooms with different member pairs, that
\* is, no two room_assigned events with different pairs share a player.
C29_OneRoomPerPlayer ==
    \A c, d \in created :
       Members(c.room) # Members(d.room) => Members(c.room) \cap Members(d.room) = {}

\* C30: a local player whose room_id is set keeps that room_id in every step,
\* whichever room_assigned events its manager consumes and whenever the Matcher runs.
C30_StableAssignment ==
    [][\A m \in Nodes : \A id \in DOMAIN players[m] :
          players[m][id].RoomID # EmptyStr =>
             /\ id \in DOMAIN players'[m]
             /\ players'[m][id].RoomID = players[m][id].RoomID]_vars

\* Two rooms with different pairs were created that share a player; the player's
\* manager has consumed both room_assigned events and the player has a room_id.
C30_Witness ==
    \E m \in Nodes : \E id \in DOMAIN players[m] :
       /\ players[m][id].RoomID # EmptyStr
       /\ subs[TopicRoom][roomCh(m)] = << >>
       /\ \E c, d \in created :
             /\ Members(c.room) # Members(d.room)
             /\ id \in Members(c.room) \cap Members(d.room)

\* C28: a manager's sequence counter never decreases; every room a manager has created
\* carries a number between 1 and the counter, and a room it creates carries the
\* counter's next value, which is greater than the number of every room it created
\* before; so no manager uses a number twice.
C28_MonotoneRoomIds ==
    /\ [](\A c \in created : c.room.ID[1] = "room_" /\ c.room.ID[2] \in 1 .. seq[c.by])
    /\ [][/\ \A m \in Nodes : seq'[m] >= seq[m]
          /\ \A c \in created' \ created :
                /\ seq'[c.by] = seq[c.by] + 1
                /\ c.room.ID = <<"room_", seq[c.by] + 1>>
                /\ \A d \in created : d.by = c.by => d.room.ID[2] < c.room.ID[2]]_vars

\* Node A and node B have each created a room, each numbered with its own counter.
C28_Witness ==
    /\ \E c \in created : c.by = "A" /\ c.room.ID = <<"room_", seq["A"]>>
    /\ \E c \in created : c.by = "B" /\ c.room.ID = <<"room_", seq["B"]>>

\* The goroutines that run Manager operations.
Callers == Goroutines \ {"stream"}

C31_UniqueRoomIds ==
    \A c, d \in created : c.room.ID = d.room.ID => Members(c.room) = Members(d.room)

\* C32: the control_mode and agent_id of a seated local player of node A change only
\* in a step in which ToggleControl succeeds for that player; no delivery of a
\* room_assigned event changes them.
C32_DurableSwitch ==
    [][\A id \in DOMAIN players["A"] :
          /\ players["A"][id].RoomID # EmptyStr
          /\ ~(ret'.op = "ToggleControl" /\ ret'.err = ErrNone /\ ret'.id = id)
          => /\ players'["A"][id].ControlMode = players["A"][id].ControlMode
             /\ players'["A"][id].AgentID = players["A"][id].AgentID]_vars

\* C33: when a SubmitInput call that passed its checks stores the snapshot or
\* publishes the room_input, the player's control_mode is the input's source.
C33_AtomicGating ==
    [][\A m \in Nodes :
          inflight[m] # NoInput /\ inflight'[m] # inflight[m] =>
             players[m][inflight[m][1].in.PlayerID].ControlMode = inflight[m][1].in.Source]_vars

\* C34: when node A's player loop takes a player_ready event whose id is a local player
\* sitting in a room, no field of that player changes and the id is not added to the
\* remote view.
C34_PlayerConsumerFrame ==
    [][/\ ret'.op = "consumePlayerEvents"
       /\ ret'.arg = <<"player_ready">>
       /\ ret'.id \in DOMAIN players["A"]
       /\ players["A"][ret'.id].RoomID # EmptyStr
       => /\ players'["A"][ret'.id] = players["A"][ret'.id]
          /\ ret'.id \notin DOMAIN remote'["A"]]_vars
\* Node A took a player_ready event of its own seated player.
C34_Witness ==
    /\ ret.op = "consumePlayerEvents"
    /\ ret.arg = <<"player_ready">>
    /\ ret.id \in DOMAIN players["A"]
    /\ players["A"][ret.id].RoomID # EmptyStr

\* The player a player_ready event at the head of node m's tetris.player channel carries.
Incoming(m) == UnmarshalPlayer(Head(subs[TopicPlayer][playerCh(m)]).Player[1])

\* Node m's room loop takes a room_assigned event with a room, and the room it carries.
Installs(m) ==
    /\ roomCh(m) \in DOMAIN subs[TopicRoom]
    /\ Len(subs'[TopicRoom][roomCh(m)]) < Len(subs[TopicRoom][roomCh(m)])
    /\ Decodes(Head(subs[TopicRoom][roomCh(m)]))
    /\ Head(subs[TopicRoom][roomCh(m)]).Type = "room_assigned"
    /\ Head(subs[TopicRoom][roomCh(m)]).Room # << >>
Assigned(m) == UnmarshalRoom(Head(subs[TopicRoom][roomCh(m)]).Room[1])

\* C35: every entry of a remote view is ready and has no room; a player_ready of a
\* non-local player who is not ready or has a room removes the player's entry; and
\* creating or installing a room removes its members from the remote view.
C35_RemoteView ==
    /\ [](\A m \in Nodes : \A id \in DOMAIN remote[m] :
            /\ remote[m][id].ID = id
            /\ remote[m][id].Ready
            /\ remote[m][id].RoomID = EmptyStr)
    /\ [][/\ ret'.op = "consumePlayerEvents"
           /\ ret'.arg = <<"player_ready">>
           /\ ret'.id \notin DOMAIN players["A"]
           /\ (~Incoming("A").Ready \/ Incoming("A").RoomID # EmptyStr)
           => ret'.id \notin DOMAIN remote'["A"]]_vars
    /\ [][\A m \in Nodes : Installs(m) =>
             \A id \in Members(Assigned(m)) : id \notin DOMAIN remote'[m]]_vars
    /\ [][\A c \in created' \ created :
             \A id \in Members(c.room) : id \notin DOMAIN remote'[c.by]]_vars
\* Node A took a player_ready of the remote player that made no room and left the
\* player out of the remote view, and node B has installed a room.
C35_Witness ==
    /\ ret.op = "consumePlayerEvents"
    /\ ret.arg = <<"player_ready">>
    /\ ret.id = Bob
    /\ ret.pubs = << >>
    /\ Bob \notin DOMAIN remote["A"]
    /\ rooms["B"] # EmptyMap

\* C36: for a local player of node A who is in no room, ping_ms changes only when a
\* SetReady call for the player returns, and app_id and version change only when an
\* UpsertPlayer call for the player returns; delivery of events changes none of them.
C36_NoUndoBySelfDelivery ==
    [][\A id \in DOMAIN players["A"] :
          players["A"][id].RoomID = EmptyStr /\ players'["A"][id].RoomID = EmptyStr =>
             /\ players'["A"][id].PingMS # players["A"][id].PingMS
                => ret'.op = "SetReady" /\ ret'.id = id /\ ret'.err = ErrNone
             /\ <<players'["A"][id].AppID, players'["A"][id].Version>>
                  # <<players["A"][id].AppID, players["A"][id].Version>>
                => ret'.op = "UpsertPlayer" /\ ret'.id = id /\ ret'.err = ErrNone]_vars

\* C37: while the last state_sync that returned for a player carried a well-formed
\* board and no later call for the player is under way on the player's manager, that
\* manager's GetRoomStates shows the player with that board and score.
C37_NoSnapshotRegress ==
    \A id \in DOMAIN lastSync :
       /\ lastSync[id] \in Snapshots
       /\ inflight[HomeOf(id)] = NoInput
       => Shows(HomeOf(id), RoomName(1), id, lastSync[id])

\* The input event in is a state_sync with a board upsertRoomState accepts.
WellFormedSync(in) ==
    /\ in.Action = "state_sync"
    /\ "board" \in DOMAIN in.Payload
    /\ toStringSlice(in.Payload["board"])[1]
\* GetRoomStates(roomID) on the manager of player id succeeds with an entry for id.
HasSnapshot(roomID, id) ==
    /\ GetRoomStates(HomeOf(id), roomID)[1] = ErrNone
    /\ id \in DOMAIN GetRoomStates(HomeOf(id), roomID)[2]
\* The payload e is a room_input event with such a state_sync.
CarriesSync(e) ==
    /\ Decodes(e)
    /\ e.Type = "room_input"
    /\ e.Input # << >>
    /\ WellFormedSync(UnmarshalInput(e.Input[1]))

\* C38: when a SubmitInput call with a well-formed state_sync is about to publish, and
\* whenever a subscription of any topic holds the room_input event of such a call,
\* GetRoomStates on the submitting manager has a snapshot for the player.
C38_ApplyBeforeBroadcast ==
    /\ \A m \in Nodes :
          inflight[m] # NoInput /\ inflight[m][1].pc = "publish"
            /\ WellFormedSync(inflight[m][1].in)
          => HasSnapshot(inflight[m][1].roomID, inflight[m][1].in.PlayerID)
    /\ \A t \in DOMAIN subs : \A c \in DOMAIN subs[t] : \A i \in 1..Len(subs[t][c]) :
          CarriesSync(subs[t][c][i])
          => HasSnapshot(subs[t][c][i].RoomID, UnmarshalInput(subs[t][c][i].Input[1]).PlayerID)
\* A subscription of the room's own topic and node B's tetris.room subscription both
\* hold a state_sync event of node A's player.
C38_Witness ==
    /\ \E c \in DOMAIN subs[TopicRoom] :
          c = roomCh("B") /\ \E i \in 1..Len(subs[TopicRoom][c]) : CarriesSync(subs[TopicRoom][c][i])
    /\ topicForRoom(RoomName(1)) \in DOMAIN subs
    /\ \E c \in DOMAIN subs[topicForRoom(RoomName(1))] :
          \E i \in 1..Len(subs[topicForRoom(RoomName(1))][c]) :
             CarriesSync(subs[topicForRoom(RoomName(1))][c][i])

\* Node A's player loop and room loop take the head of their channel.
TakesPlayerEvent == ret'.op = "consumePlayerEvents" /\ ret'.node = "A"
TakesRoomEvent == ret'.op = "consumeRoomEvents" /\ ret'.node = "A"
\* What the player loop cannot apply: a payload that does not decode, an event of
\* another type, a player_ready without player.
NoPlayerNotice(e) == ~Decodes(e) \/ e.Type # "player_ready" \/ e.Player = << >>
\* What the room loop of node m cannot apply: a payload that does not decode, an event
\* of another type, a room_assigned without room, a room_input that is not a
\* state_sync, a state_sync for a room m does not know.
NoRoomNotice(m, e) ==
    \/ ~Decodes(e)
    \/ e.Type \notin {"room_assigned", "room_input"}
    \/ e.Type = "room_assigned" /\ e.Room = << >>
    \/ e.Type = "room_input" /\ e.Input # << >> /\ e.Input[1].action # "state_sync"
    \/ e.Type = "room_input" /\ e.Input # << >> /\ e.Input[1].action = "state_sync"
          /\ e.RoomID \notin DOMAIN rooms[m]

\* C39: when a loop of node A takes an event it cannot apply, players, remote view,
\* rooms and state store stay as they are and the event is gone from the channel; and
\* a loop whose channel holds an event can always take it.
C39_LoopsSkip ==
    /\ [][TakesPlayerEvent /\ NoPlayerNotice(Head(subs[TopicPlayer][playerCh("A")]))
           => /\ UNCHANGED <<players, remote, rooms, states>>
              /\ subs' = Receive(TopicPlayer, playerCh("A"))]_vars
    /\ [][TakesRoomEvent /\ NoRoomNotice("A", Head(subs[TopicRoom][roomCh("A")]))
           => /\ UNCHANGED <<players, remote, rooms, states>>
              /\ subs' = Receive(TopicRoom, roomCh("A"))]_vars
    /\ [](subs[TopicPlayer][playerCh("A")] # << >> => ENABLED consumePlayerEvents("A"))
    /\ [](subs[TopicRoom][roomCh("A")] # << >> => ENABLED consumeRoomEvents("A"))
\* Node A's room loop took a state_sync for a room it does not know.
C39_Witness ==
    /\ ret.op = "consumeRoomEvents"
    /\ ret.arg = <<"state_sync">>
    /\ ret.room \notin DOMAIN rooms["A"]

\* The requests in status Pending whose applicant is a.
PendingOf(a) ==
    {id \in 1..Len(registry.requests) :
        registry.requests[id].status = Pending /\ registry.requests[id].applicant = a}

\* C40: every applicant has at most one request in status Pending, and
\* pendingRequestIdOf[a] is a non-zero id exactly when that request is Pending with
\* applicant a.
C40_PendingRequests ==
    \A a \in Accounts :
       /\ Cardinality(PendingOf(a)) <= 1
       /\ \A id \in 1..RegistryRequests :
             registry.pendingRequestIdOf[a] = id <=> id \in PendingOf(a)
====
